---- MODULE Spec2Model ----
(***************************************************************************)
(* Model of the review-local-changes tool of src/src/index.ts (the logging *)
(* version, lines 444-932): the process runners spawnGemini and            *)
(* spawnEslint, the argument transport runGeminiPrompt, the analyzer       *)
(* selection runProjectLinter and the orchestration runHybridAnalysis.     *)
(*                                                                         *)
(* A JavaScript string is a sequence of atoms (indivisible pieces of       *)
(* text); concatenation is \o.  An async function is one action per        *)
(* segment between two awaits; the events of a child process (data,        *)
(* error, close) and the timer are actions of their own.                   *)
(***************************************************************************)
EXTENDS Integers, Sequences, FiniteSets, TLC

VARIABLES
    pc,            \* position of the tool handler / runHybridAnalysis / runProjectLinter
    inv,           \* the process-runner invocation in flight (closure of spawnGemini / spawnEslint)
    nextOid,       \* identity given to the next Error object created
    procs,         \* every call of spawn() / exec(), in order
    warnings,      \* console.warn / logWarning lines, in order
    prompt,        \* runGeminiPrompt's prompt
    promptTimeout, \* runGeminiPrompt's timeoutMs
    caught,        \* the error caught by runGeminiPrompt's catch block
    changedFiles,  \* runHybridAnalysis: changedFiles
    fileIdx,       \* runProjectLinter: index of the JSHint loop
    results,       \* runProjectLinter: results of the JSHint loop
    linterReport,  \* runHybridAnalysis: linterReport
    ret,           \* what the tool handler returned or threw
    workspace,     \* the working directory: its configuration files, and whether jshint is installed
    trail,         \* runProjectLinter: the probes and analyzer runs made, with their outcomes
    parsed,        \* the last call of parseJshintOutput / parseTypeScriptErrors made on its own
    parked,        \* the local variables of a second, concurrent invocation of the tool handler
    manager        \* scripts/simple-inspector-manager.js: the manager process and the ports it looks at

vars == <<pc, inv, nextOid, procs, warnings, prompt, promptTimeout, caught,
          changedFiles, fileIdx, results, linterReport, ret, workspace, trail, parsed,
          parked, manager>>

(***************************************************************************)
(* Bounds of the model.                                                    *)
(***************************************************************************)
\* lines of an analyzer's output handed to a parser
MaxLines == 2
\* data chunks a child writes to its stdout
MaxStdoutChunks == 2
\* data chunks a child writes to its stderr
MaxStderrChunks == 1

(***************************************************************************)
(* Strings.                                                                *)
(***************************************************************************)
Whitespace == {" ", "\n"}

RECURSIVE TrimStart(_)
TrimStart(s) ==
    IF s # <<>> /\ Head(s) \in Whitespace THEN TrimStart(Tail(s)) ELSE s

RECURSIVE TrimEnd(_)
TrimEnd(s) ==
    IF s # <<>> /\ s[Len(s)] \in Whitespace THEN TrimEnd(SubSeq(s, 1, Len(s) - 1)) ELSE s

\* String.prototype.trim
Trim(s) == TrimEnd(TrimStart(s))

\* String.prototype.endsWith, for a one-atom suffix
EndsWith(s, atom) == s # <<>> /\ s[Len(s)] = atom

LowerAtom(a) ==
    CASE a = "Argument List Too Long" -> "argument list too long"
      [] a = "Argument list too long" -> "argument list too long"
      [] a = "ARGUMENT LIST TOO LONG" -> "argument list too long"
      [] a = "Gemini CLI exited with code " -> "gemini cli exited with code "
      [] a = "Gemini CLI timed out after " -> "gemini cli timed out after "
      [] a = "ESLint timed out after " -> "eslint timed out after "
      [] a = "spawn E2BIG" -> "spawn e2big"
      [] a = "spawn gemini ENOENT" -> "spawn gemini enoent"
      [] a = "spawn EIO: " -> "spawn eio: "
      [] OTHER -> a

\* String.prototype.toLowerCase
ToLowerCase(s) == [k \in 1..Len(s) |-> LowerAtom(s[k])]

\* String.prototype.includes, for a one-atom needle
Includes(s, atom) == \E k \in 1..Len(s) : s[k] = atom

RECURSIVE Flatten(_)
Flatten(chunks) ==
    IF chunks = <<>> THEN <<>> ELSE Head(chunks) \o Flatten(Tail(chunks))

\* Array.prototype.join(' ')
RECURSIVE JoinSpace(_)
JoinSpace(parts) ==
    IF parts = <<>> THEN <<>>
    ELSE IF Len(parts) = 1 THEN Head(parts)
    ELSE Head(parts) \o <<" ">> \o JoinSpace(Tail(parts))

(***************************************************************************)
(* Error objects.  oid is the identity of the object.                      *)
(***************************************************************************)
NoError == [oid |-> 0, hasCode |-> FALSE, code |-> "", message |-> <<>>]

\* new Error(message)
NewError(oid, message) ==
    [oid |-> oid, hasCode |-> FALSE, code |-> "", message |-> message]

\* The errors the runtime raises from spawn() or emits as the child's 'error'
\* event: errno exceptions (with a code) and plain errors.
RuntimeErrors ==
    { [hasCode |-> TRUE, code |-> "E2BIG", message |-> <<"spawn E2BIG">>],
      [hasCode |-> TRUE, code |-> "ENOENT", message |-> <<"spawn gemini ENOENT">>],
      [hasCode |-> TRUE, code |-> "EIO", message |-> <<"spawn EIO: ", "Argument list too long">>],
      [hasCode |-> FALSE, code |-> "", message |-> <<"ARGUMENT LIST TOO LONG">>] }

Raised(e, oid) ==
    [oid |-> oid, hasCode |-> e.hasCode, code |-> e.code, message |-> e.message]

ArgTooLongMessage(error) ==
    Includes(ToLowerCase(error.message), "argument list too long")

\* mutant: every failure is taken for an oversized argument vector
isArgumentTooLongErrorAny(error) == TRUE

isArgumentTooLongError(error) ==
    IF error.hasCode
    THEN error.code = "E2BIG"
    ELSE ArgTooLongMessage(error)


(***************************************************************************)
(* The process runners: spawnGemini and spawnEslint.                       *)
(***************************************************************************)
GeminiDefaultTimeoutMs == 120000
EslintTimeoutMs == 30000

\* exit statuses a child closes with
ExitCodes == {0, 2}

\* single chunks a child writes
StdoutChunks(kind) ==
    IF kind = "gemini"
    THEN { <<"{\"summary\":">>, <<"\"ok\"}">> }
    ELSE { <<"[F]">>, <<"null">>, <<" ">> }

StderrChunks == { <<" ">>, <<"Argument List Too Long">> }

\* the `input` parameter of spawnGemini: null or a string
NullInput == [null |-> TRUE, text |-> <<>>]
TextInput(s) == [null |-> FALSE, text |-> s]

\* how the runtime answers spawn(): the child runs, the launch fails and the
\* runtime queues the child's 'error' event for the next tick, or spawn throws
Launches ==
    { [how |-> "alive", error |-> NoError] }
    \cup { [how |-> h, error |-> e] : h \in {"failing", "throw"}, e \in RuntimeErrors }

Pending == [state |-> "pending", stdout |-> <<>>, stderr |-> <<>>, error |-> NoError]

\* resolve(value) of the promise executor: the first settlement of a promise wins
Resolve(i, out, err) ==
    [i EXCEPT !.resolves = @ + 1,
              !.promise = IF @.state = "pending"
                          THEN [state |-> "resolved", stdout |-> out, stderr |-> err,
                                error |-> NoError]
                          ELSE @]

\* reject(error) of the promise executor
Reject(i, e) ==
    [i EXCEPT !.rejects = @ + 1,
              !.promise = IF @.state = "pending"
                          THEN [state |-> "rejected", stdout |-> <<>>, stderr |-> <<>>,
                                error |-> e]
                          ELSE @]

\* no invocation yet
NoInvocation ==
    [kind |-> "none", child |-> "none", args |-> <<>>, shell |-> FALSE,
     stdinData |-> <<>>, stdinEnded |-> FALSE, timeoutMs |-> 0,
     stdout |-> <<>>, stderr |-> <<>>, settled |-> FALSE, timer |-> "unset",
     promise |-> Pending, resolves |-> 0, rejects |-> 0, sigterms |-> 0,
     outChunks |-> <<>>, errChunks |-> <<>>, errorEvents |-> 0, closeCode |-> -1,
     settledBy |-> "none", launch |-> "none", launchErr |-> NoError]

\* mutant: the newline is added without looking at the end of the input
StdinPayloadAlwaysNewline(input) ==
    IF input.null THEN <<>> ELSE input.text \o <<"\n">>

\* child.stdin.end(input.endsWith("\n") ? input : `${input}\n`) / child.stdin.end()
StdinPayload(input) ==
    IF input.null THEN <<>>
    ELSE IF EndsWith(input.text, "\n") THEN input.text
    ELSE input.text \o <<"\n">>

\* The synchronous part of the promise executor: spawn, the closure's
\* variables, the timer, the handlers, the write to stdin.
SpawnChild(kind, args, shell, input, timeoutMs, launch, oid) ==
    LET base == [NoInvocation EXCEPT !.kind = kind, !.args = args, !.shell = shell,
                                     !.timeoutMs = timeoutMs, !.launch = launch.how,
                                     !.launchErr = Raised(launch.error, oid)]
    IN  IF launch.how = "throw"
        THEN Reject([base EXCEPT !.settledBy = "throw"], Raised(launch.error, oid))
        ELSE [base EXCEPT !.child = launch.how,
                          !.launchErr = IF launch.how = "failing" THEN @ ELSE NoError,
                          !.timer = "armed",
                          !.stdinData = StdinPayload(input),
                          !.stdinEnded = TRUE]

spawnGemini(args, input, timeoutMs, launch, oid) ==
    SpawnChild("gemini", args, FALSE, input, timeoutMs, launch, oid)

spawnEslint(files, timeoutMs, launch, oid) ==
    SpawnChild("eslint", <<<<"eslint">>, <<"--format">>, <<"json">>>> \o files, TRUE,
               NullInput, timeoutMs, launch, oid)

\* what spawn() hands to the operating system; timeoutMs is the timer the
\* runner starts next to it
SpawnCall(file, args, shell, timeoutMs) ==
    IF shell
    THEN [file |-> "/bin/sh", args |-> << <<"-c">>, JoinSpace(<<<<file>>>> \o args) >>,
          shell |-> TRUE, timeoutMs |-> timeoutMs]
    ELSE [file |-> file, args |-> args, shell |-> FALSE, timeoutMs |-> timeoutMs]

\* what exec(command, { timeout }) hands to the operating system; 0 is no timeout
ExecCall(command, timeoutMs) ==
    [file |-> "/bin/sh", args |-> << <<"-c">>, command >>, shell |-> TRUE,
     timeoutMs |-> timeoutMs]

\* mutant: the message does not say how long the runner waited
TimeoutMessageNoDuration(i) ==
    << (IF i.kind = "gemini" THEN "Gemini CLI timed out after " ELSE "ESLint timed out after "),
       "the configured time" >>

TimeoutMessage(i) ==
    << (IF i.kind = "gemini" THEN "Gemini CLI timed out after " ELSE "ESLint timed out after "),
       ToString(i.timeoutMs), " ms" >>

\* mutant: the timer only signals the child and leaves the rejection to 'close'
onTimeoutKillOnly(i, oid) ==
    IF i.settled THEN i ELSE [i EXCEPT !.sigterms = @ + 1]

\* the setTimeout callback
onTimeout(i, oid) ==
    IF i.settled THEN i
    ELSE Reject([i EXCEPT !.settled = TRUE, !.sigterms = @ + 1],
                NewError(oid, TimeoutMessage(i)))

\* mutant: the chunk is put in front of what was captured
onStdoutDataPrepend(i, data) == [i EXCEPT !.stdout = data \o @]

\* child.stdout.on("data")
onStdoutData(i, data) == [i EXCEPT !.stdout = @ \o data]

\* child.stderr.on("data")
onStderrData(i, data) == [i EXCEPT !.stderr = @ \o data]

\* mutant: the error is wrapped in a new one
onErrorWrapped(i, error) ==
    IF i.settled THEN i
    ELSE Reject([i EXCEPT !.settled = TRUE, !.timer = "cleared"],
                NewError(error.oid, <<"Failed to start: ">> \o error.message))

\* child.on("error")
onError(i, error) ==
    IF i.settled THEN i
    ELSE Reject([i EXCEPT !.settled = TRUE, !.timer = "cleared"], error)

ExitMessage(code, stderr) ==
    <<"Gemini CLI exited with code ", ToString(code)>>
        \o (IF stderr # <<>> THEN <<": ">> \o stderr ELSE <<>>)

\* mutant: the close handler does not look at `settled`
geminiOnCloseUnguarded(i, code, oid) ==
    LET j == [i EXCEPT !.settled = TRUE, !.timer = "cleared"]
    IN  IF code # 0
        THEN Reject(j, NewError(oid, <<"Gemini CLI exited with code ", ToString(code)>>
                                     \o (IF i.stderr # <<>> THEN <<": ">> \o i.stderr ELSE <<>>)))
        ELSE Resolve(j, i.stdout, i.stderr)

\* child.on("close") of spawnGemini
geminiOnClose(i, code, oid) ==
    IF i.settled THEN i
    ELSE LET j == [i EXCEPT !.settled = TRUE, !.timer = "cleared"]
         IN  IF code # 0
             THEN Reject(j, NewError(oid, ExitMessage(code, i.stderr)))
             ELSE Resolve(j, i.stdout, i.stderr)

\* the warning of spawnGemini's close handler
geminiCloseWarnings(i, code) ==
    IF ~i.settled /\ code = 0 /\ Trim(i.stderr) # <<>>
    THEN << <<"Gemini CLI output on stderr">> >>
    ELSE <<>>

\* mutant: the close handler of spawnEslint leaves the timer running
eslintOnCloseKeepsTimer(i, code) ==
    IF i.settled THEN i
    ELSE Resolve([i EXCEPT !.settled = TRUE], i.stdout, i.stderr)

\* child.on("close") of spawnEslint
eslintOnClose(i, code) ==
    IF i.settled THEN i
    ELSE Resolve([i EXCEPT !.settled = TRUE, !.timer = "cleared"], i.stdout, i.stderr)

onClose(i, code, oid) ==
    IF i.kind = "gemini" THEN geminiOnClose(i, code, oid) ELSE eslintOnClose(i, code)

\* which event settled the invocation (history)
SettledBy(i, j, event) ==
    IF i.promise.state = "pending" /\ j.promise.state # "pending" THEN event ELSE i.settledBy

\* the identity nextOid is spent when the step kept an Error object made with it
AllocOid ==
    nextOid' = IF \/ inv'.promise.error.oid = nextOid
                  \/ inv'.launchErr.oid = nextOid
                  \/ ret'.error.oid = nextOid
               THEN nextOid + 1 ELSE nextOid

(***************************************************************************)
(* Events of the invocation in flight.                                     *)
(***************************************************************************)
ChildStdout ==
    /\ UNCHANGED <<workspace, parked, manager, trail, parsed>>
    /\ inv.child = "alive"
    /\ Len(inv.outChunks) < MaxStdoutChunks
    /\ \E data \in StdoutChunks(inv.kind) :
          inv' = [onStdoutData(inv, data) EXCEPT !.outChunks = Append(@, data)]
    /\ UNCHANGED <<pc, nextOid, procs, warnings, prompt, promptTimeout, caught,
                   changedFiles, fileIdx, results, linterReport, ret>>

ChildStderr ==
    /\ UNCHANGED <<workspace, parked, manager, trail, parsed>>
    /\ inv.child = "alive"
    /\ Len(inv.errChunks) < MaxStderrChunks
    /\ \E data \in StderrChunks :
          inv' = [onStderrData(inv, data) EXCEPT !.errChunks = Append(@, data)]
    /\ UNCHANGED <<pc, nextOid, procs, warnings, prompt, promptTimeout, caught,
                   changedFiles, fileIdx, results, linterReport, ret>>

\* The 'error' event of a launch that failed: the runtime emits it on the next
\* tick, before any timer callback can run.
ChildLaunchFailed ==
    /\ UNCHANGED <<workspace, parked, manager, trail, parsed>>
    /\ inv.child = "failing"
    /\ LET j == onError(inv, inv.launchErr)
       IN  inv' = [j EXCEPT !.child = "dead", !.errorEvents = @ + 1,
                            !.settledBy = SettledBy(inv, j, "error")]
    /\ UNCHANGED <<pc, nextOid, procs, warnings, prompt, promptTimeout, caught,
                   changedFiles, fileIdx, results, linterReport, ret>>

\* An 'error' event of a running child (a signal that could not be delivered,
\* for one).
ChildError ==
    /\ UNCHANGED <<workspace, parked, manager, trail, parsed>>
    /\ inv.child = "alive"
    /\ inv.errorEvents = 0
    /\ \E e \in RuntimeErrors :
          LET j == onError(inv, Raised(e, nextOid))
          IN  inv' = [j EXCEPT !.errorEvents = @ + 1,
                               !.settledBy = SettledBy(inv, j, "error")]
    /\ UNCHANGED <<pc, procs, warnings, prompt, promptTimeout, caught,
                   changedFiles, fileIdx, results, linterReport, ret>>
    /\ AllocOid

ChildClose ==
    /\ UNCHANGED <<workspace, parked, manager, trail, parsed>>
    /\ inv.child \in {"alive", "dead"}
    /\ \E code \in ExitCodes :
          LET j == onClose(inv, code, nextOid)
          IN  /\ inv' = [j EXCEPT !.child = "closed", !.closeCode = code,
                                  !.settledBy = SettledBy(inv, j, "close")]
              /\ warnings' = warnings \o
                    (IF inv.kind = "gemini" THEN geminiCloseWarnings(inv, code) ELSE <<>>)
    /\ UNCHANGED <<pc, procs, prompt, promptTimeout, caught,
                   changedFiles, fileIdx, results, linterReport, ret>>
    /\ AllocOid

TimerFires ==
    /\ UNCHANGED <<workspace, parked, manager, trail, parsed>>
    /\ inv.timer = "armed"
    /\ inv.child # "failing"
    /\ LET j == onTimeout(inv, nextOid)
       IN  inv' = [j EXCEPT !.timer = "fired", !.settledBy = SettledBy(inv, j, "timeout")]
    /\ UNCHANGED <<pc, procs, warnings, prompt, promptTimeout, caught,
                   changedFiles, fileIdx, results, linterReport, ret>>
    /\ AllocOid


(***************************************************************************)
(* Parsing of the analyzers' output.                                       *)
(***************************************************************************)
\* String.prototype.split('\n')
RECURSIVE SplitLines(_)
SplitLines(s) ==
    IF ~Includes(s, "\n") THEN <<s>>
    ELSE LET k == CHOOSE n \in 1..Len(s) : s[n] = "\n" /\ \A m \in 1..(n - 1) : s[m] # "\n"
         IN  <<SubSeq(s, 1, k - 1)>> \o SplitLines(SubSeq(s, k + 1, Len(s)))

\* the atoms \d+ matches, and parseInt of them
DigitAtoms == {"0", "3", "5", "10", "12"}
ParseInt(a) ==
    CASE a = "0" -> 0 [] a = "3" -> 3 [] a = "5" -> 5 [] a = "10" -> 10 [] a = "12" -> 12

\* an entry of the linter report; keys are the properties the object has
Finding(filePath, line, column, message, severity, source) ==
    [keys |-> {"filePath", "line", "column", "message", "severity", "rule", "source"},
     filePath |-> filePath, line |-> line, column |-> column, message |-> message,
     severity |-> severity, source |-> source]

\* an entry of ESLint's --format json output, as JSON.parse returns it
EslintResult(filePath) ==
    [keys |-> {"filePath", "messages", "errorCount", "warningCount"},
     filePath |-> filePath, line |-> 0, column |-> 0, message |-> <<>>,
     severity |-> "", source |-> ""]

\* a working directory with no configuration file and no jshint
NoWorkspace == [files |-> {}, jshint |-> FALSE, tree |-> <<>>]

\* no parser was called on its own yet
NoParse == [fn |-> "none", lines |-> <<>>, filePath |-> <<>>, output |-> <<>>, issues |-> <<>>]

\* No second invocation of the tool handler is in progress.
NoRun == [pc |-> "none"]

\* The inspector manager script is not being run.
NoManager == [pc |-> "off"]

Report(items) == [isNull |-> FALSE, items |-> items]
NullReport == [isNull |-> TRUE, items |-> <<>>]

\* JSON.parse of the ESLint output
JsonParse(text) ==
    LET t == Trim(text)
    IN  IF t = <<"[F]">> THEN [ok |-> TRUE, value |-> Report(<<EslintResult(<<"/repo/", "a", ".js">>)>>)]
        ELSE IF t = <<"null">> THEN [ok |-> TRUE, value |-> NullReport]
        ELSE [ok |-> FALSE, value |-> Report(<<>>)]

\* mutant: the pattern's first group is not greedy, only the first reading is kept
JshintMatchesFirst(line) ==
    LET ks == { k \in 2..(Len(line) - 5) :
                  /\ line[k] = ": line "
                  /\ line[k + 1] \in DigitAtoms
                  /\ line[k + 2] = ", col "
                  /\ line[k + 3] \in DigitAtoms
                  /\ line[k + 4] = ", " }
    IN  { k \in ks : \A m \in ks : k <= m }

\* positions where /^(.+): line (\d+), col (\d+), (.+)$/ can place ": line "
JshintMatches(line) ==
    { k \in 2..(Len(line) - 5) :
        /\ line[k] = ": line "
        /\ line[k + 1] \in DigitAtoms
        /\ line[k + 2] = ", col "
        /\ line[k + 3] \in DigitAtoms
        /\ line[k + 4] = ", "
        /\ \A m \in 1..Len(line) : line[m] # "\n" }

RECURSIVE parseJshintLines(_, _)
parseJshintLines(lines, filePath) ==
    IF lines = <<>> THEN <<>>
    ELSE LET line == Head(lines)
             ks == JshintMatches(line)
             k == CHOOSE n \in ks : \A m \in ks : m <= n
         IN  (IF ks = {} THEN <<>>
              ELSE << Finding(filePath, ParseInt(line[k + 1]), ParseInt(line[k + 3]),
                              SubSeq(line, k + 5, Len(line)), "warning", "jshint") >>)
             \o parseJshintLines(Tail(lines), filePath)

parseJshintOutput(output, filePath) == parseJshintLines(SplitLines(output), filePath)

\* length of the run of whitespace atoms of line that starts at position k
RECURSIVE SpaceRun(_, _)
SpaceRun(line, k) ==
    IF k <= Len(line) /\ line[k] \in Whitespace THEN 1 + SpaceRun(line, k + 1) ELSE 0

\* /^([^(]+)\((\d+),(\d+)\):\s+(error|warning)\s+(.+)$/ : the position of "("
\* when the line matches, 0 when it does not
TsMatch(line) ==
    IF ~Includes(line, "(") THEN 0
    ELSE LET k == CHOOSE n \in 1..Len(line) : line[n] = "(" /\ \A m \in 1..(n - 1) : line[m] # "("
             s1 == SpaceRun(line, k + 6)
             sev == k + 6 + s1
             s2 == SpaceRun(line, sev + 1)
         IN  IF /\ k >= 2
                /\ Len(line) >= k + 5
                /\ line[k + 1] \in DigitAtoms
                /\ line[k + 2] = ","
                /\ line[k + 3] \in DigitAtoms
                /\ line[k + 4] = ")"
                /\ line[k + 5] = ":"
                /\ s1 >= 1
                /\ sev <= Len(line)
                /\ line[sev] \in {"error", "warning"}
                /\ s2 >= 1
                /\ (sev + s2 < Len(line) \/ s2 >= 2)
             THEN k ELSE 0

RECURSIVE parseTypeScriptLines(_)
parseTypeScriptLines(lines) ==
    IF lines = <<>> THEN <<>>
    ELSE LET line == Head(lines)
             k == TsMatch(line)
             sev == k + 6 + SpaceRun(line, k + 6)
             s2 == SpaceRun(line, sev + 1)
             msg == IF sev + s2 < Len(line) THEN sev + s2 + 1 ELSE Len(line)
         IN  (IF k = 0 THEN <<>>
              ELSE << Finding(Trim(SubSeq(line, 1, k - 1)), ParseInt(line[k + 1]),
                              ParseInt(line[k + 3]), SubSeq(line, msg, Len(line)),
                              line[sev], "typescript") >>)
             \o parseTypeScriptLines(Tail(lines))

parseTypeScriptErrors(output) == parseTypeScriptLines(SplitLines(output))

(***************************************************************************)
(* The parsers on their own: the texts they are given are built from       *)
(* lines of known make-up.                                                 *)
(***************************************************************************)
\* a diagnostic line of jshint: `<file>: line <n>, col <m>, <message>`
JshintIssueLine(file, n, m, message) ==
    [issue |-> TRUE, file |-> file, line |-> n, column |-> m, severity |-> "warning",
     message |-> message,
     text |-> file \o <<": line ", n, ", col ", m, ", ">> \o message]

\* a diagnostic line of tsc: `<file>(<line>,<col>): <error|warning> <message>`
TsIssueLine(file, n, m, severity, message) ==
    [issue |-> TRUE, file |-> file, line |-> n, column |-> m, severity |-> severity,
     message |-> message,
     text |-> file \o <<"(", n, ",", m, ")", ":", " ", severity, " ">> \o message]

\* any other line
OtherLine(text) ==
    [issue |-> FALSE, file |-> <<>>, line |-> "0", column |-> "0", severity |-> "",
     message |-> <<>>, text |-> text]

JshintLines ==
    { JshintIssueLine(<<"src/app", ".js">>, "10", "3", <<"Missing semicolon">>),
      JshintIssueLine(<<"b", ".js", ": line ", "5", ", col ", "0", ", ", "Expected">>,
                      "3", "5", <<"nested">>),
      OtherLine(<<"1 error">>),
      OtherLine(<<>>),
      OtherLine(<<"a", ".js", ": line ", "x", ", col ", "3", ", ", "Missing semicolon">>),
      OtherLine(<<"a", ".js", ": line ", "10", ", col ", "3", ", ">>),
      OtherLine(<<": line ", "10", ", col ", "3", ", ", "Missing semicolon">>) }

TsLines ==
    { TsIssueLine(<<"src/app", ".ts">>, "5", "12", "error", <<"TS2322: Type mismatch">>),
      TsIssueLine(<<"b", ".tsx">>, "3", "0", "warning", <<"TS6133:", " ", "unused">>),
      TsIssueLine(<<"app/", "(", "auth", ")", "/page", ".tsx">>, "10", "3", "error",
                  <<"TS2304: Cannot find name">>),
      OtherLine(<<"Found 1 error.">>),
      OtherLine(<<>>),
      OtherLine(<<"a", ".ts", "(", "5", ",", "12", ")", ":", " ", "info", " ", "TS1: note">>) }

\* the files parseJshintOutput is called for
ParserFiles == { <<"src/app", ".js">>, <<"b", ".js">> }

\* sequences of at most MaxLines lines
LinesOver(S) == UNION { [1..n -> S] : n \in 0..MaxLines }

\* the text of the lines, each ended by a newline
RECURSIVE TextOf(_)
TextOf(lines) ==
    IF lines = <<>> THEN <<>>
    ELSE Head(lines).text \o <<"\n">> \o TextOf(Tail(lines))

ParseJshint ==
    /\ pc = "parser"
    /\ \E lines \in LinesOver(JshintLines), file \in ParserFiles :
          parsed' = [fn |-> "jshint", lines |-> lines, filePath |-> file,
                     output |-> TextOf(lines),
                     issues |-> parseJshintOutput(TextOf(lines), file)]
    /\ UNCHANGED <<pc, inv, nextOid, procs, warnings, prompt, promptTimeout, caught,
                   changedFiles, fileIdx, results, linterReport, ret, workspace, parked, manager, trail>>

ParseTypeScript ==
    /\ pc = "parser"
    /\ \E lines \in LinesOver(TsLines) :
          parsed' = [fn |-> "typescript", lines |-> lines, filePath |-> <<>>,
                     output |-> TextOf(lines),
                     issues |-> parseTypeScriptErrors(TextOf(lines))]
    /\ UNCHANGED <<pc, inv, nextOid, procs, warnings, prompt, promptTimeout, caught,
                   changedFiles, fileIdx, results, linterReport, ret, workspace, parked, manager, trail>>

(***************************************************************************)
(* One invocation of a process runner on its own: spawnGemini with the     *)
(* payload as argument or on stdin, or spawnEslint, for every answer of    *)
(* spawn() and every order of the child's events and the timer.            *)
(***************************************************************************)
RunnerTimeouts == { GeminiDefaultTimeoutMs, EslintTimeoutMs }
RunnerPayload == <<"review">>
RunnerFiles == << <<"a", ".js">>, <<"b", ".ts">> >>

RunnerInvocations ==
    UNION { { spawnGemini(<<RunnerPayload>>, NullInput, t, launch, 1),
              spawnGemini(<<>>, TextInput(RunnerPayload), t, launch, 1),
              spawnEslint(RunnerFiles, t, launch, 1) } :
            t \in RunnerTimeouts, launch \in Launches }

RunnerInit ==
    /\ workspace = NoWorkspace
    /\ trail = <<>>
    /\ parsed = NoParse
    /\ parked = NoRun
    /\ manager = NoManager
    /\ pc = "runner"
    /\ inv \in RunnerInvocations
    /\ nextOid = 2
    /\ procs = << SpawnCall(IF inv.kind = "gemini" THEN "gemini" ELSE "npx", inv.args, inv.shell, inv.timeoutMs) >>
    /\ warnings = <<>>
    /\ prompt = <<>>
    /\ promptTimeout = inv.timeoutMs
    /\ caught = NoError
    /\ changedFiles = <<>>
    /\ fileIdx = 0
    /\ results = <<>>
    /\ linterReport = [isNull |-> FALSE, items |-> <<>>]
    /\ ret = [kind |-> "none", text |-> <<>>, error |-> NoError]

RunnerNext ==
    \/ ChildStdout
    \/ ChildStderr
    \/ ChildLaunchFailed
    \/ ChildError
    \/ ChildClose
    \/ TimerFires

RunnerSpec == RunnerInit /\ [][RunnerNext]_vars

\* A timer that was started fires unless it is cleared, and the runtime runs
\* the callbacks queued for the next tick.
FairRunnerSpec ==
    RunnerSpec /\ WF_vars(TimerFires) /\ WF_vars(ChildLaunchFailed)

(***************************************************************************)
(* The argument transport: runGeminiPrompt, and the end of the tool        *)
(* handler that awaits it.                                                 *)
(***************************************************************************)
NoReturn == [kind |-> "none", text |-> <<>>, error |-> NoError]
\* mutant: the handler returns the text only when it is the JSON document it
\* asked for, and an empty object otherwise
ReturnedValidated(text) ==
    [kind |-> "text",
     text |-> IF text = <<"{\"summary\":", "\"ok\"}">> THEN text ELSE <<"{}">>,
     error |-> NoError]
Returned(text) == [kind |-> "text", text |-> text, error |-> NoError]
\* mutant: the catch block answers with the error's message as the result
ThrownAsText(e) == [kind |-> "text", text |-> e.message, error |-> NoError]
Thrown(e) == [kind |-> "error", text |-> <<>>, error |-> e]

\* return spawnGemini([], prompt, timeoutMs), the retry of the catch block
RetryInvocation(launch, oid) ==
    spawnGemini(<<>>, TextInput(prompt), promptTimeout, launch, oid)

\* the first attempt has settled: `return await spawnGemini([prompt], null, timeoutMs)`
\* and, when it was rejected, the catch block
GeminiSettled ==
    /\ UNCHANGED <<workspace, parked, manager, trail, parsed>>
    /\ pc = "reviewer1"
    /\ inv.promise.state # "pending"
    /\ IF inv.promise.state = "resolved"
       THEN /\ ret' = Returned(inv.promise.stdout)
            /\ pc' = "done"
            /\ UNCHANGED <<inv, procs, warnings, caught>>
       ELSE /\ caught' = inv.promise.error
            /\ IF isArgumentTooLongError(inv.promise.error)
               THEN /\ warnings' = Append(warnings,
                          <<"Gemini prompt exceeded argument length; falling back to stdin streaming">>)
                    /\ \E launch \in Launches : inv' = RetryInvocation(launch, nextOid)
                    /\ procs' = Append(procs, SpawnCall("gemini", <<>>, FALSE, promptTimeout))
                    /\ pc' = "reviewer2"
                    /\ ret' = ret
               ELSE /\ ret' = Thrown(inv.promise.error)
                    /\ pc' = "failed"
                    /\ UNCHANGED <<inv, procs, warnings>>
    /\ UNCHANGED <<prompt, promptTimeout, changedFiles, fileIdx, results, linterReport>>
    /\ AllocOid

\* mutant: a retry that fails with the argument-length signature is retried
GeminiRetrySettledAgain ==
    /\ UNCHANGED <<workspace, parked, manager, trail, parsed>>
    /\ pc = "reviewer2"
    /\ inv.promise.state # "pending"
    /\ IF inv.promise.state = "resolved"
       THEN /\ ret' = Returned(inv.promise.stdout)
            /\ pc' = "done"
            /\ UNCHANGED <<inv, procs>>
       ELSE IF isArgumentTooLongError(inv.promise.error)
       THEN /\ \E launch \in Launches : inv' = RetryInvocation(launch, nextOid)
            /\ procs' = Append(procs, SpawnCall("gemini", <<>>, FALSE, promptTimeout))
            /\ UNCHANGED <<pc, ret>>
       ELSE /\ ret' = Thrown(inv.promise.error)
            /\ pc' = "failed"
            /\ UNCHANGED <<inv, procs>>
    /\ UNCHANGED <<warnings, prompt, promptTimeout, caught,
                   changedFiles, fileIdx, results, linterReport>>
    /\ AllocOid

\* the retry has settled: its outcome is runGeminiPrompt's
GeminiRetrySettled ==
    /\ UNCHANGED <<workspace, parked, manager, trail, parsed>>
    /\ pc = "reviewer2"
    /\ inv.promise.state # "pending"
    /\ IF inv.promise.state = "resolved"
       THEN /\ ret' = Returned(inv.promise.stdout)
            /\ pc' = "done"
       ELSE /\ ret' = Thrown(inv.promise.error)
            /\ pc' = "failed"
    /\ UNCHANGED <<inv, nextOid, procs, warnings, prompt, promptTimeout, caught,
                   changedFiles, fileIdx, results, linterReport>>

\* runGeminiPrompt(prompt, timeoutMs) up to its first await
FirstInvocation(p, timeoutMs, launch, oid) ==
    spawnGemini(<<p>>, NullInput, timeoutMs, launch, oid)

(***************************************************************************)
(* The orchestration: the tool handler, runHybridAnalysis and              *)
(* runProjectLinter.  A command run with exec() is one action: the call    *)
(* and its completion.                                                     *)
(***************************************************************************)
JshintTimeoutMs == 10000
TscTimeoutMs == 30000

EslintConfigFiles ==
    << "eslint.config.js", ".eslintrc.js", ".eslintrc.json", ".eslintrc.yml",
       ".eslintrc.yaml", ".eslintrc" >>

\* what `git diff HEAD --name-only --diff-filter=AM` prints: one line for each
\* added or modified file of the working tree
GitListings ==
    { <<>>,
      <<"README", ".md", "\n">>,
      <<"a", ".js", "\n">>,
      <<"a", ".js", "\n", "$(id)", ".ts", "\n">> }

\* the working directories a run may start in: the configuration files that
\* exist, whether jshint is installed, and the added and modified files (tree)
Workspaces ==
    { [files |-> f, jshint |-> j, tree |-> t] :
        f \in { {}, {".eslintrc.json"}, {"tsconfig.json"}, {".eslintrc", "tsconfig.json"} },
        j \in BOOLEAN,
        t \in GitListings }

\* what `git diff HEAD` prints for a working tree: a patch for each of its
\* added or modified files
DiffOf(tree) ==
    LET files == SplitLines(tree)
    IN  Flatten([k \in 1..Len(files) |->
                    IF files[k] = <<>> THEN <<>>
                    ELSE <<"diff --git a/">> \o files[k] \o <<"\n">>])

\* what `jshint <file>` and `npx tsc --noEmit` write to stderr when they exit with 0
JshintOutputs ==
    { <<>>,
      <<"a", ".js", ": line ", "10", ", col ", "3", ", ", "Missing semicolon", "\n", "1 error", "\n">> }
TscOutputs ==
    { <<>>,
      <<"src/app", ".ts", "(", "5", ",", "12", ")", ":", " ", "error", " ", "TS2322: Type mismatch", "\n">> }

\* one `npx tsc --noEmit`: its exit status and what it wrote to each stream
TscRuns ==
    { [exit |-> 0, stdout |-> <<>>, stderr |-> <<>>] }
    \cup { [exit |-> x, stdout |-> d, stderr |-> <<>>] : x \in ExitCodes, d \in TscOutputs \ {<<>>} }
    \cup { [exit |-> x, stdout |-> <<>>, stderr |-> d] : x \in ExitCodes, d \in TscOutputs \ {<<>>} }

\* an entry of trail: a feasibility probe (config: the configuration file exists) ...
Probe(strategy, feasible, config) ==
    [strategy |-> strategy, step |-> "probe", ok |-> feasible, config |-> config,
     exit |-> 0, stdout |-> <<>>, stderr |-> <<>>]

\* ... or a run of the analyzer: ok when the step returned without throwing,
\* exit the status the process ended with (-1: it did not end by itself)
Run(strategy, ok, exit, stdout, stderr) ==
    [strategy |-> strategy, step |-> "run", ok |-> ok, config |-> FALSE,
     exit |-> exit, stdout |-> stdout, stderr |-> stderr]

\* the error exec() rejects with when the command fails or times out
ExecError(command, oid) ==
    [oid |-> oid, hasCode |-> TRUE, code |-> "1", message |-> <<"Command failed: ">> \o command]

GitListCommand == <<"git diff HEAD --name-only --diff-filter=AM">>
GitDiffCommand == <<"git diff HEAD">>
TscCommand == <<"npx tsc --noEmit">>
JshintCommand(file) == <<"jshint ">> \o file
TestCommand(file) == <<"test -f ", file>>
WhichCommand(command) == <<"which ", command>>

\* mutant: the TypeScript check is made whenever tsconfig.json exists
TypeScriptFeasibleConfigOnly(hasTsConfig, files) == hasTsConfig

\* hasTsConfig && changedFiles.some(f => f.endsWith('.ts') || f.endsWith('.tsx'))
TypeScriptFeasible(hasTsConfig, files) ==
    /\ hasTsConfig
    /\ \E k \in 1..Len(files) : EndsWith(files[k], ".ts") \/ EndsWith(files[k], ".tsx")

\* mutant: the test also lets .jsx files through
HasReviewedExtensionOrJsx(file) ==
    file # <<>> /\ file[Len(file)] \in {".js", ".jsx", ".ts", ".tsx", ".vue"}

\* /\.(js|ts|tsx|vue)$/.test(file)
HasReviewedExtension(file) ==
    file # <<>> /\ file[Len(file)] \in {".js", ".ts", ".tsx", ".vue"}

\* changedFiles of runHybridAnalysis
ChangedFilesOf(gitFiles) ==
    SelectSeq(SelectSeq(SplitLines(gitFiles), LAMBDA file : Trim(file) # <<>>),
              HasReviewedExtension)

\* checkFileExists: the number of `test -f` commands it runs, one per file up
\* to the first that exists
RECURSIVE ProbesRun(_, _)
ProbesRun(files, existing) ==
    IF files = <<>> THEN 0
    ELSE IF Head(files) \in existing THEN 1
    ELSE 1 + ProbesRun(Tail(files), existing)

checkFileExists(files, existing) == \E k \in 1..Len(files) : files[k] \in existing

checkFileExistsCalls(files, existing) ==
    [k \in 1..ProbesRun(files, existing) |-> ExecCall(TestCommand(files[k]), 0)]

\* JSON.stringify of a string: quoted, with quotes, backslashes and line
\* ends escaped
JsonEscapeAtom(a) ==
    CASE a = "\n" -> "\\n"
      [] a = "\"" -> "\\\""
      [] a = "\\" -> "\\\\"
      [] OTHER -> a

JsonString(s) == <<"\"">> \o [k \in 1..Len(s) |-> JsonEscapeAtom(s[k])] \o <<"\"">>

\* mutant: the payload is built without the diff
AnalysisDataNoDiff(gitDiff, report) ==
    <<"{ \"diff\": ">> \o JsonString(<<>>)
        \o <<", \"linterReport\": ", ToString(report.items), " }">>

\* JSON.stringify(result, null, 2) of runHybridAnalysis
AnalysisData(gitDiff, report) ==
    <<"{ \"diff\": ">> \o JsonString(gitDiff)
        \o <<", \"linterReport\": ", ToString(report.items), " }">>

\* mutant: the handler takes every payload without a patch for the sentinel
IsSentinelWithoutPatch(analysisData) == ~Includes(analysisData, "diff --git a/")

\* analysisData === '{}' of the tool handler
IsSentinel(analysisData) == analysisData = <<"{}">>

\* the prompt of the tool handler
PromptOf(analysisData) ==
    <<"You are an expert-level AI code reviewer ... --- CONTEXT START ---", "\n">>
        \o analysisData
        \o <<"\n", "--- CONTEXT END --- ... **JSON SCHEMA:** { ... }">>

CanonicalEmptyResult ==
    <<"{ \"summary\": \"No relevant files changed.\", \"assessment\": \"\", \"findings\": [] }">>

\* mutant: the ESLint block does not return its result and goes on to JSHint
LinterReturnsEslintGoesOn(report) ==
    /\ linterReport' = report
    /\ pc' = IF pc = "eslint" THEN "probeJshint" ELSE "diff"
    /\ ret' = ret

\* runProjectLinter has returned report: runHybridAnalysis reads
\* linterReport.length and goes on to the diff
LinterReturns(report) ==
    /\ linterReport' = report
    /\ IF report.isNull
       THEN /\ pc' = "failed"
            /\ ret' = Thrown(NewError(nextOid, <<"Cannot read properties of null (reading 'length')">>))
       ELSE /\ pc' = "diff"
            /\ ret' = ret

NoLinterWarning == <<"No suitable linter found in project, proceeding without static analysis">>

\* mutant: runHybridAnalysis goes on to the analyzers with an empty change set
ListChangesGoesOn ==
    /\ UNCHANGED <<workspace, parked, manager, trail, parsed>>
    /\ pc = "start"
    /\ procs' = Append(procs, ExecCall(GitListCommand, 0))
    /\ changedFiles' = ChangedFilesOf(workspace.tree)
    /\ pc' = "probeEslint"
    /\ UNCHANGED <<inv, nextOid, warnings, prompt, promptTimeout, caught, fileIdx, results,
                   linterReport, ret>>

\* the tool handler is invoked: runHybridAnalysis lists the changed files,
\* returns '{}' when none is left, and else enters runProjectLinter
ListChanges ==
    /\ UNCHANGED <<workspace, parked, manager, trail, parsed>>
    /\ pc = "start"
    /\ procs' = Append(procs, ExecCall(GitListCommand, 0))
    /\ \/ /\ pc' = "failed"
          /\ ret' = Thrown(ExecError(GitListCommand, nextOid))
          /\ UNCHANGED changedFiles
       \/ LET gitFiles == workspace.tree IN
             /\ changedFiles' = ChangedFilesOf(gitFiles)
             /\ IF changedFiles' = <<>>
                THEN pc' = "noChanges" /\ ret' = Returned(CanonicalEmptyResult)
                ELSE pc' = "probeEslint" /\ ret' = ret
    /\ UNCHANGED <<inv, warnings, prompt, promptTimeout, caught, fileIdx, results, linterReport>>
    /\ AllocOid

\* checkFileExists([... ESLint configuration files]) and, when one exists,
\* spawnEslint(changedFiles, 30000) up to the await
ProbeEslintConfig ==
    /\ UNCHANGED <<workspace, parked, manager, parsed>>
    /\ pc = "probeEslint"
    /\ LET existing == workspace.files IN
          /\ trail' = Append(trail, LET has == checkFileExists(EslintConfigFiles, existing)
                                     IN  Probe("eslint", has, has))
          /\ IF checkFileExists(EslintConfigFiles, existing)
             THEN /\ \E launch \in Launches :
                        inv' = spawnEslint(changedFiles, EslintTimeoutMs, launch, nextOid)
                  /\ procs' = procs \o checkFileExistsCalls(EslintConfigFiles, existing)
                                    \o << SpawnCall("npx", inv'.args, TRUE, EslintTimeoutMs) >>
                  /\ pc' = "eslint"
             ELSE /\ procs' = procs \o checkFileExistsCalls(EslintConfigFiles, existing)
                  /\ pc' = "probeJshint"
                  /\ UNCHANGED inv
    /\ UNCHANGED <<warnings, prompt, promptTimeout, caught, changedFiles, fileIdx,
                   results, linterReport, ret>>
    /\ AllocOid

\* spawnEslint has settled: JSON.parse of its stdout, or the catch block
EslintSettled ==
    /\ UNCHANGED <<workspace, parked, manager, parsed>>
    /\ pc = "eslint"
    /\ inv.promise.state # "pending"
    /\ LET linterJson == inv.promise.stdout
           json == JsonParse(linterJson)
           returns == /\ inv.promise.state = "resolved"
                      /\ (Trim(linterJson) = <<>> \/ json.ok)
       IN  /\ trail' = Append(trail,
                  Run("eslint", returns,
                      IF inv.settledBy = "close" THEN inv.closeCode ELSE -1,
                      <<>>, <<>>))
           /\ IF inv.promise.state = "resolved" /\ Trim(linterJson) = <<>>
              THEN LinterReturns(Report(<<>>)) /\ UNCHANGED warnings
              ELSE IF inv.promise.state = "resolved" /\ json.ok
              THEN LinterReturns(json.value) /\ UNCHANGED warnings
              ELSE /\ warnings' = Append(warnings,
                          <<"ESLint execution failed, trying fallback linter:">>
                          \o (IF inv.promise.state = "rejected"
                              THEN inv.promise.error.message
                              ELSE <<"Unexpected token in JSON">>))
                   /\ pc' = "probeJshint"
                   /\ UNCHANGED <<linterReport, ret>>
    /\ inv' = NoInvocation
    /\ UNCHANGED <<procs, prompt, promptTimeout, caught, changedFiles, fileIdx, results>>
    /\ AllocOid

\* checkCommandExists('jshint')
ProbeJshint ==
    /\ UNCHANGED <<workspace, parked, manager, parsed>>
    /\ pc = "probeJshint"
    /\ procs' = Append(procs, ExecCall(WhichCommand("jshint"), 0))
    /\ trail' = Append(trail, Probe("jshint", workspace.jshint, FALSE))
    /\ IF workspace.jshint
       THEN pc' = "jshint" /\ fileIdx' = 1 /\ results' = <<>>
       ELSE pc' = "probeTs" /\ UNCHANGED <<fileIdx, results>>
    /\ UNCHANGED <<inv, nextOid, warnings, prompt, promptTimeout, caught, changedFiles,
                   linterReport, ret>>

\* mutant: the loop starts a JSHint process for every changed file before it
\* awaits the first
JshintFileAllAtOnce ==
    /\ UNCHANGED <<workspace, parked, manager, trail, parsed>>
    /\ pc = "jshint"
    /\ procs' = procs \o [k \in 1..Len(changedFiles) |->
                              ExecCall(JshintCommand(changedFiles[k]), JshintTimeoutMs)]
    /\ pc' = "jshintRun"
    /\ UNCHANGED <<inv, nextOid, warnings, prompt, promptTimeout, caught, changedFiles,
                   fileIdx, results, linterReport, ret>>

\* one iteration of the JSHint loop up to its await:
\* execAsync(`jshint ${file}`, { timeout: 10000 })
JshintFile ==
    /\ UNCHANGED <<workspace, parked, manager, trail, parsed>>
    /\ pc = "jshint"
    /\ procs' = Append(procs, ExecCall(JshintCommand(changedFiles[fileIdx]), JshintTimeoutMs))
    /\ pc' = "jshintRun"
    /\ UNCHANGED <<inv, nextOid, warnings, prompt, promptTimeout, caught, changedFiles,
                   fileIdx, results, linterReport, ret>>

\* mutant: when a file fails, the findings of the files before it are returned
JshintSettledKeepsFindings ==
    /\ UNCHANGED <<workspace, parked, manager, parsed, procs>>
    /\ pc = "jshintRun"
    /\ LET file == changedFiles[fileIdx]
       IN  \/ /\ warnings' = Append(warnings, <<"JSHint execution failed:">>
                                         \o ExecError(JshintCommand(file), nextOid).message)
              /\ trail' = Append(trail, Run("jshint", FALSE, 2, <<>>, <<>>))
              /\ IF results # <<>>
                 THEN LinterReturns(Report(results))
                 ELSE pc' = "probeTs" /\ UNCHANGED <<linterReport, ret>>
              /\ UNCHANGED <<fileIdx, results>>
           \/ \E stderr \in JshintOutputs :
                 /\ trail' = Append(trail, Run("jshint", TRUE, 0, <<>>, stderr))
                 /\ results' = IF stderr # <<>>
                               THEN results \o parseJshintOutput(stderr, file)
                               ELSE results
                 /\ IF fileIdx < Len(changedFiles)
                    THEN fileIdx' = fileIdx + 1 /\ pc' = "jshint" /\ UNCHANGED <<linterReport, ret>>
                    ELSE UNCHANGED fileIdx /\ LinterReturns(Report(results'))
                 /\ UNCHANGED warnings
    /\ UNCHANGED <<inv, prompt, promptTimeout, caught, changedFiles>>
    /\ AllocOid

\* the JSHint process of the current file has ended (or was killed after its
\* 10 seconds): the rest of the iteration, or the catch block
JshintSettled ==
    /\ UNCHANGED <<workspace, parked, manager, parsed, procs>>
    /\ pc = "jshintRun"
    /\ LET file == changedFiles[fileIdx]
       IN  \/ /\ warnings' = Append(warnings, <<"JSHint execution failed:">>
                                         \o ExecError(JshintCommand(file), nextOid).message)
              /\ pc' = "probeTs"
              /\ trail' = Append(trail, Run("jshint", FALSE, 2, <<>>, <<>>))
              /\ UNCHANGED <<fileIdx, results, linterReport, ret>>
           \/ \E stderr \in JshintOutputs :
                 /\ trail' = Append(trail, Run("jshint", TRUE, 0, <<>>, stderr))
                 /\ results' = IF stderr # <<>>
                               THEN results \o parseJshintOutput(stderr, file)
                               ELSE results
                 /\ IF fileIdx < Len(changedFiles)
                    THEN fileIdx' = fileIdx + 1 /\ pc' = "jshint" /\ UNCHANGED <<linterReport, ret>>
                    ELSE UNCHANGED fileIdx /\ LinterReturns(Report(results'))
                 /\ UNCHANGED warnings
    /\ UNCHANGED <<inv, prompt, promptTimeout, caught, changedFiles>>
    /\ AllocOid

\* checkFileExists(['tsconfig.json']) and the test on the changed files; the
\* end of runProjectLinter when the TypeScript check does not apply
ProbeTsConfig ==
    /\ UNCHANGED <<workspace, parked, manager, parsed>>
    /\ pc = "probeTs"
    /\ LET existing == workspace.files IN
          /\ procs' = procs \o checkFileExistsCalls(<<"tsconfig.json">>, existing)
          /\ trail' = Append(trail,
                 LET hasTsConfig == checkFileExists(<<"tsconfig.json">>, existing)
                 IN  Probe("typescript", TypeScriptFeasible(hasTsConfig, changedFiles), hasTsConfig))
          /\ IF TypeScriptFeasible(checkFileExists(<<"tsconfig.json">>, existing), changedFiles)
             THEN pc' = "tsc" /\ UNCHANGED <<warnings, linterReport, ret>>
             ELSE warnings' = Append(warnings, NoLinterWarning) /\ LinterReturns(Report(<<>>))
    /\ UNCHANGED <<inv, nextOid, prompt, promptTimeout, caught, changedFiles, fileIdx, results>>

\* execAsync('npx tsc --noEmit', { timeout: 30000 }) and the end of runProjectLinter
Tsc ==
    /\ UNCHANGED <<workspace, parked, manager, parsed>>
    /\ pc = "tsc"
    /\ procs' = Append(procs, ExecCall(TscCommand, TscTimeoutMs))
    /\ \E run \in TscRuns :
          /\ trail' = Append(trail, Run("typescript", run.exit = 0, run.exit, run.stdout, run.stderr))
          /\ IF run.exit # 0
             THEN /\ warnings' = warnings \o
                        << <<"TypeScript compilation check failed:">>
                               \o ExecError(TscCommand, nextOid).message,
                           NoLinterWarning >>
                  /\ LinterReturns(Report(<<>>))
             ELSE IF run.stderr # <<>>
             THEN LinterReturns(Report(parseTypeScriptErrors(run.stderr))) /\ UNCHANGED warnings
             ELSE warnings' = Append(warnings, NoLinterWarning) /\ LinterReturns(Report(<<>>))
    /\ UNCHANGED <<inv, prompt, promptTimeout, caught, changedFiles, fileIdx, results>>
    /\ AllocOid

\* mutant: the reviewer is spawned before the diff is asked for
FetchDiffAfterReviewer ==
    /\ UNCHANGED <<workspace, parked, manager, trail, parsed>>
    /\ pc = "diff"
    /\ \/ /\ pc' = "failed"
          /\ ret' = Thrown(ExecError(GitDiffCommand, nextOid))
          /\ procs' = Append(procs, ExecCall(GitDiffCommand, 0))
          /\ UNCHANGED <<inv, prompt, promptTimeout>>
       \/ LET gitDiff == DiffOf(workspace.tree)
              analysisData == AnalysisData(gitDiff, linterReport)
             IN  IF IsSentinel(analysisData)
                 THEN /\ pc' = "noChanges"
                      /\ ret' = Returned(CanonicalEmptyResult)
                      /\ procs' = Append(procs, ExecCall(GitDiffCommand, 0))
                      /\ UNCHANGED <<inv, prompt, promptTimeout>>
                 ELSE /\ prompt' = PromptOf(analysisData)
                      /\ promptTimeout' = GeminiDefaultTimeoutMs
                      /\ \E launch \in Launches :
                            inv' = FirstInvocation(prompt', promptTimeout', launch, nextOid)
                      /\ procs' = procs \o << SpawnCall("gemini", <<prompt'>>, FALSE, promptTimeout'),
                                             ExecCall(GitDiffCommand, 0) >>
                      /\ pc' = "reviewer1"
                      /\ ret' = ret
    /\ UNCHANGED <<warnings, caught, changedFiles, fileIdx, results, linterReport>>
    /\ AllocOid

\* execAsync("git diff HEAD"), the payload, the sentinel test and the prompt of
\* the tool handler, and runGeminiPrompt(prompt) up to its first await
FetchDiff ==
    /\ UNCHANGED <<workspace, parked, manager, trail, parsed>>
    /\ pc = "diff"
    /\ \/ /\ pc' = "failed"
          /\ ret' = Thrown(ExecError(GitDiffCommand, nextOid))
          /\ procs' = Append(procs, ExecCall(GitDiffCommand, 0))
          /\ UNCHANGED <<inv, prompt, promptTimeout>>
       \/ LET gitDiff == DiffOf(workspace.tree)
              analysisData == AnalysisData(gitDiff, linterReport)
             IN  IF IsSentinel(analysisData)
                 THEN /\ pc' = "noChanges"
                      /\ ret' = Returned(CanonicalEmptyResult)
                      /\ procs' = Append(procs, ExecCall(GitDiffCommand, 0))
                      /\ UNCHANGED <<inv, prompt, promptTimeout>>
                 ELSE /\ prompt' = PromptOf(analysisData)
                      /\ promptTimeout' = GeminiDefaultTimeoutMs
                      /\ \E launch \in Launches :
                            inv' = FirstInvocation(prompt', promptTimeout', launch, nextOid)
                      /\ procs' = procs \o << ExecCall(GitDiffCommand, 0),
                                             SpawnCall("gemini", <<prompt'>>, FALSE, promptTimeout') >>
                      /\ pc' = "reviewer1"
                      /\ ret' = ret
    /\ UNCHANGED <<warnings, caught, changedFiles, fileIdx, results, linterReport>>
    /\ AllocOid

(***************************************************************************)
(* The filter of the change listing on its own: the listings are built     *)
(* from lines of known make-up.                                            *)
(***************************************************************************)
\* a line that names an added or modified file the review covers
ChangedLine(path) ==
    [issue |-> TRUE, file |-> path, line |-> "0", column |-> "0", severity |-> "",
     message |-> <<>>, text |-> path]

ListingLines ==
    { ChangedLine(<<"a", ".js">>),
      ChangedLine(<<"src/", "b", ".d", ".ts">>),
      ChangedLine(<<"c", ".tsx">>),
      ChangedLine(<<"my component", ".vue">>),
      OtherLine(<<>>),
      OtherLine(<<" ">>),
      OtherLine(<<"README", ".md">>),
      OtherLine(<<"e", ".jsx">>),
      OtherLine(<<"g", ".js", " ">>),
      OtherLine(<<"h", ".JS">>) }

\* the first statement of runHybridAnalysis after the listing, for every listing
CollectChangedFiles ==
    /\ pc = "parser"
    /\ \E lines \in LinesOver(ListingLines) :
          parsed' = [fn |-> "changes", lines |-> lines, filePath |-> <<>>,
                     output |-> TextOf(lines),
                     issues |-> ChangedFilesOf(TextOf(lines))]
    /\ UNCHANGED <<pc, inv, nextOid, procs, warnings, prompt, promptTimeout, caught,
                   changedFiles, fileIdx, results, linterReport, ret, workspace, parked, manager, trail>>

(***************************************************************************)
(* runGeminiPrompt on its own, for every prompt and timeout.               *)
(***************************************************************************)
Prompts == { <<"review">>, <<"review", "\n">>, <<"review", "\n", "\n">> }
Timeouts == { GeminiDefaultTimeoutMs, EslintTimeoutMs }

TransportInit ==
    /\ workspace = NoWorkspace
    /\ trail = <<>>
    /\ parsed = NoParse
    /\ parked = NoRun
    /\ manager = NoManager
    /\ pc = "reviewer1"
    /\ prompt \in Prompts
    /\ promptTimeout \in Timeouts
    /\ \E launch \in Launches : inv = FirstInvocation(prompt, promptTimeout, launch, 1)
    /\ nextOid = 2
    /\ procs = << SpawnCall("gemini", <<prompt>>, FALSE, promptTimeout) >>
    /\ warnings = <<>>
    /\ caught = NoError
    /\ changedFiles = <<>>
    /\ fileIdx = 0
    /\ results = <<>>
    /\ linterReport = [isNull |-> FALSE, items |-> <<>>]
    /\ ret = NoReturn

TransportNext ==
    \/ ChildStdout
    \/ ChildStderr
    \/ ChildLaunchFailed
    \/ ChildError
    \/ ChildClose
    \/ TimerFires
    \/ GeminiSettled
    \/ GeminiRetrySettled

TransportSpec == TransportInit /\ [][TransportNext]_vars

(***************************************************************************)
(* runProjectLinter on its own, for every change set, up to its return to  *)
(* runHybridAnalysis.                                                      *)
(***************************************************************************)
\* the listing that names files, one on each line
ListingOf(files) == Flatten([k \in 1..Len(files) |-> files[k] \o <<"\n">>])

LinterChangeSets ==
    { << <<"a", ".js">> >>,
      << <<"a", ".js">>, <<"b", ".vue">> >>,
      << <<"a", ".js">>, <<"c", ".ts">> >>,
      << <<"d", ".tsx">> >> }

LinterInit ==
    /\ changedFiles \in LinterChangeSets
    /\ workspace \in { [w EXCEPT !.tree = ListingOf(changedFiles)] : w \in Workspaces }
    /\ pc = "probeEslint"
    /\ inv = NoInvocation
    /\ nextOid = 1
    /\ procs = << ExecCall(GitListCommand, 0) >>
    /\ warnings = <<>>
    /\ prompt = <<>>
    /\ promptTimeout = GeminiDefaultTimeoutMs
    /\ caught = NoError
    /\ fileIdx = 0
    /\ results = <<>>
    /\ linterReport = Report(<<>>)
    /\ ret = NoReturn
    /\ trail = <<>>
    /\ parsed = NoParse
    /\ parked = NoRun
    /\ manager = NoManager

LinterNext ==
    \/ ProbeEslintConfig
    \/ EslintSettled
    \/ ProbeJshint
    \/ JshintFile
    \/ JshintSettled
    \/ ProbeTsConfig
    \/ Tsc
    \/ ChildStdout
    \/ ChildStderr
    \/ ChildLaunchFailed
    \/ ChildError
    \/ ChildClose
    \/ TimerFires

LinterSpec == LinterInit /\ [][LinterNext]_vars

(***************************************************************************)
(* The parsers on their own.                                               *)
(***************************************************************************)
ParserInit ==
    /\ workspace = NoWorkspace
    /\ pc = "parser"
    /\ parsed = NoParse
    /\ parked = NoRun
    /\ manager = NoManager
    /\ inv = NoInvocation
    /\ nextOid = 1
    /\ procs = <<>>
    /\ warnings = <<>>
    /\ prompt = <<>>
    /\ promptTimeout = GeminiDefaultTimeoutMs
    /\ caught = NoError
    /\ changedFiles = <<>>
    /\ fileIdx = 0
    /\ results = <<>>
    /\ linterReport = Report(<<>>)
    /\ ret = NoReturn
    /\ trail = <<>>

ParserNext ==
    \/ ParseJshint
    \/ ParseTypeScript
    \/ CollectChangedFiles

ParserSpec == ParserInit /\ [][ParserNext]_vars

(***************************************************************************)
(* One run of the review-local-changes tool.                               *)
(***************************************************************************)
Init ==
    /\ workspace \in Workspaces
    /\ trail = <<>>
    /\ parsed = NoParse
    /\ parked = NoRun
    /\ manager = NoManager
    /\ pc = "start"
    /\ inv = NoInvocation
    /\ nextOid = 1
    /\ procs = <<>>
    /\ warnings = <<>>
    /\ prompt = <<>>
    /\ promptTimeout = GeminiDefaultTimeoutMs
    /\ caught = NoError
    /\ changedFiles = <<>>
    /\ fileIdx = 0
    /\ results = <<>>
    /\ linterReport = Report(<<>>)
    /\ ret = NoReturn

Next ==
    \/ ListChanges
    \/ ProbeEslintConfig
    \/ EslintSettled
    \/ ProbeJshint
    \/ JshintFile
    \/ JshintSettled
    \/ ProbeTsConfig
    \/ Tsc
    \/ FetchDiff
    \/ ChildStdout
    \/ ChildStderr
    \/ ChildLaunchFailed
    \/ ChildError
    \/ ChildClose
    \/ TimerFires
    \/ GeminiSettled
    \/ GeminiRetrySettled

Spec == Init /\ [][Next]_vars

(***************************************************************************)
(* The analysis of a working tree that is edited while it is analysed, up  *)
(* to the payload: in a working directory without ESLint configuration,    *)
(* where the analyzer stage spawns no child through the runners.           *)
(***************************************************************************)
AnalyzerStage == {"probeEslint", "eslint", "probeJshint", "jshint", "jshintRun", "probeTs", "tsc"}

\* somebody saves, adds or reverts a file of the working directory while
\* runProjectLinter is awaiting
WorkspaceEdited ==
    /\ pc \in AnalyzerStage
    /\ \E tree \in GitListings \ {workspace.tree} :
          workspace' = [workspace EXCEPT !.tree = tree]
    /\ UNCHANGED <<pc, inv, nextOid, procs, warnings, prompt, promptTimeout, caught,
                   changedFiles, fileIdx, results, linterReport, ret, trail, parsed,
                   parked, manager>>

EditedInit ==
    /\ Init
    /\ ~checkFileExists(EslintConfigFiles, workspace.files)

EditedNext ==
    \/ ListChanges
    \/ ProbeEslintConfig
    \/ ProbeJshint
    \/ JshintFile
    \/ JshintSettled
    \/ ProbeTsConfig
    \/ Tsc
    \/ FetchDiff
    \/ WorkspaceEdited

EditedSpec == EditedInit /\ [][EditedNext]_vars

(***************************************************************************)
(* The inspector manager, scripts/simple-inspector-manager.js: a program   *)
(* of its own, run from the command line.  The field manager.listeners is  *)
(* the operating system's view (which processes hold which inspector       *)
(* port); the other fields are the script's position, its arguments and    *)
(* what it has done so far.  An action is one segment of the script        *)
(* between two awaits.                                                     *)
(***************************************************************************)
InspectorPorts == <<6277, 6274>>

\* The processes that may hold an inspector port when the manager starts.
InspectorPids == {4001, 4002}

ManagerFlags == {"--cleanup", "--auto-cleanup", "--enable-logging"}

\* `lsof -i :port` / `lsof -ti :port`: the processes listed for the port.
\* lsof exits non-zero, and execAsync rejects, when it lists nothing or
\* cannot be run at all.
lsof(port) ==
    IF manager.lsofInstalled THEN manager.listeners[port] ELSE {}

\* spawn('npx', ['@modelcontextprotocol/inspector', ...inspectorArgs]) and
\* the registration of the handlers; the script then waits for an event.
StartInspector(m) ==
    [m EXCEPT !.pc = "running",
              !.inspector = "started",
              !.inspectorArgs = IF "--enable-logging" \in m.args
                                  THEN <<"node", "dist/index.js", "--enable-logging">>
                                  ELSE <<"node", "dist/index.js">>]

\* process.exit(code)
Exit(m, code) == [m EXCEPT !.pc = "exited", !.status = code]

ManagerFrame ==
    UNCHANGED <<pc, inv, nextOid, procs, warnings, prompt, promptTimeout, caught,
                changedFiles, fileIdx, results, linterReport, ret, workspace, trail,
                parsed, parked>>

\* runSimpleInspectorManager up to its first await: with --cleanup it calls
\* cleanupInspectorProcesses, otherwise checkPortsAvailable; either one
\* starts lsof on the first port.
runSimpleInspectorManager ==
    /\ manager.pc = "main"
    /\ manager' = [manager EXCEPT !.pc = IF "--cleanup" \in manager.args
                                           THEN "cleanup" ELSE "check",
                                  !.port = 1]
    /\ ManagerFrame

\* checkPortsAvailable, one port per step: lsof has ended for the port.  A
\* port lsof lists a process for ends the check with false: the manager
\* goes on to the cleanup with --auto-cleanup and exits with status 1
\* without it.  When no port is listed the check returns true and the
\* manager starts the inspector.
checkPortsAvailable ==
    /\ manager.pc = "check"
    /\ LET port == InspectorPorts[manager.port]
       IN  IF lsof(port) # {}
             THEN LET m == [manager EXCEPT !.portsAvailable = "no"]
                  IN  manager' = IF "--auto-cleanup" \in manager.args
                                    THEN [m EXCEPT !.pc = "cleanup", !.port = 1]
                                    ELSE Exit(m, 1)
             ELSE IF manager.port < Len(InspectorPorts)
                     THEN manager' = [manager EXCEPT !.port = @ + 1]
                     ELSE manager' = StartInspector([manager EXCEPT !.portsAvailable = "yes"])
    /\ ManagerFrame

\* cleanupInspectorProcesses, one port per step: lsof has ended for the
\* port, and every process it lists is sent SIGTERM.  process.kill throws
\* when the signal cannot be sent (the process belongs to another user, or
\* is gone already); the script logs a warning and goes on.
cleanupInspectorProcesses ==
    /\ manager.pc = "cleanup"
    /\ LET port == InspectorPorts[manager.port]
           pids == lsof(port)
       IN  \E sent \in SUBSET pids :
              manager' = [manager EXCEPT
                            !.found = @ \cup pids,
                            !.signalled = @ \cup sent,
                            !.pc = IF manager.port < Len(InspectorPorts) THEN "cleanup" ELSE "wait",
                            !.port = IF manager.port < Len(InspectorPorts) THEN @ + 1 ELSE @]
    /\ ManagerFrame

\* The two seconds cleanupInspectorProcesses waits are over.  With --cleanup
\* the manager logs 'Cleanup completed' and returns; with --auto-cleanup it
\* starts the inspector, without looking at the ports again.
CleanupWaited ==
    /\ manager.pc = "wait"
    /\ manager' = IF "--cleanup" \in manager.args
                     THEN [manager EXCEPT !.pc = "returned"]
                     ELSE StartInspector(manager)
    /\ ManagerFrame

\* A process that holds an inspector port ends and releases its ports.
ListenerExits ==
    /\ manager.pc \notin {"off", "exited", "returned"}
    /\ \E pid \in InspectorPids :
          /\ \E p \in DOMAIN manager.listeners : pid \in manager.listeners[p]
          /\ manager' = [manager EXCEPT
                           !.listeners = [p \in DOMAIN manager.listeners |->
                                             manager.listeners[p] \ {pid}]]
    /\ ManagerFrame

\* inspectorProcess.on('close'): the manager exits with the inspector's code.
InspectorClosed ==
    /\ manager.pc = "running"
    /\ \E code \in {0, 1} :
          manager' = Exit([manager EXCEPT !.inspector = "closed"], code)
    /\ ManagerFrame

\* inspectorProcess.on('error'): the inspector could not be started.
InspectorError ==
    /\ manager.pc = "running"
    /\ manager' = Exit([manager EXCEPT !.inspector = "failed"], 1)
    /\ ManagerFrame

\* SIGINT or SIGTERM reaches the manager: it sends SIGTERM to the inspector
\* and exits with status 0.
ManagerInterrupted ==
    /\ manager.pc = "running"
    /\ manager' = Exit([manager EXCEPT !.inspector = "killed"], 0)
    /\ ManagerFrame

InspectorInit ==
    /\ pc = "idle"
    /\ inv = NoInvocation
    /\ nextOid = 1
    /\ procs = <<>>
    /\ warnings = <<>>
    /\ prompt = <<>>
    /\ promptTimeout = 0
    /\ caught = NoError
    /\ changedFiles = <<>>
    /\ fileIdx = 0
    /\ results = <<>>
    /\ linterReport = [isNull |-> FALSE, items |-> <<>>]
    /\ ret = NoReturn
    /\ workspace = NoWorkspace
    /\ trail = <<>>
    /\ parsed = NoParse
    /\ parked = NoRun
    /\ \E args \in SUBSET ManagerFlags, installed \in BOOLEAN,
          holders \in [{6277, 6274} -> SUBSET InspectorPids] :
          manager = [pc |-> "main", args |-> args, lsofInstalled |-> installed,
                     listeners |-> holders, port |-> 0, portsAvailable |-> "unchecked",
                     found |-> {}, signalled |-> {}, inspector |-> "none",
                     inspectorArgs |-> <<>>, status |-> -1]

InspectorNext ==
    \/ runSimpleInspectorManager
    \/ checkPortsAvailable
    \/ cleanupInspectorProcesses
    \/ CleanupWaited
    \/ ListenerExits
    \/ InspectorClosed
    \/ InspectorError
    \/ ManagerInterrupted

InspectorSpec == InspectorInit /\ [][InspectorNext]_vars

(***************************************************************************)
(* Two invocations of the tool handler in one server process.  An async    *)
(* function keeps its local variables and the closures of its runners      *)
(* across an await, and at every await the event loop may go on with the   *)
(* other invocation.  The variables pc .. trail are those of the           *)
(* invocation that runs, parked holds those of the invocation that waits;  *)
(* procs and warnings are then the calls and the warnings of the           *)
(* invocation that runs.  The working directory and the identities of      *)
(* objects belong to the process and are shared.                           *)
(***************************************************************************)
Locals ==
    [pc |-> pc, inv |-> inv, procs |-> procs, warnings |-> warnings,
     prompt |-> prompt, promptTimeout |-> promptTimeout, caught |-> caught,
     changedFiles |-> changedFiles, fileIdx |-> fileIdx, results |-> results,
     linterReport |-> linterReport, ret |-> ret, trail |-> trail]

\* mutant: `results` is one array of the module, which every invocation of
\* runProjectLinter pushes to
SwitchSharedResults ==
    /\ parked # NoRun
    /\ pc' = parked.pc
    /\ inv' = parked.inv
    /\ procs' = parked.procs
    /\ warnings' = parked.warnings
    /\ prompt' = parked.prompt
    /\ promptTimeout' = parked.promptTimeout
    /\ caught' = parked.caught
    /\ changedFiles' = parked.changedFiles
    /\ fileIdx' = parked.fileIdx
    /\ results' = results
    /\ linterReport' = parked.linterReport
    /\ ret' = parked.ret
    /\ trail' = parked.trail
    /\ parked' = Locals
    /\ UNCHANGED <<nextOid, workspace, parsed, manager>>

\* The invocation that runs has reached an await (or its end) and the event
\* loop goes on with the other one.
Switch ==
    /\ parked # NoRun
    /\ pc' = parked.pc
    /\ inv' = parked.inv
    /\ procs' = parked.procs
    /\ warnings' = parked.warnings
    /\ prompt' = parked.prompt
    /\ promptTimeout' = parked.promptTimeout
    /\ caught' = parked.caught
    /\ changedFiles' = parked.changedFiles
    /\ fileIdx' = parked.fileIdx
    /\ results' = parked.results
    /\ linterReport' = parked.linterReport
    /\ ret' = parked.ret
    /\ trail' = parked.trail
    /\ parked' = Locals
    /\ UNCHANGED <<nextOid, workspace, parsed, manager>>

\* Two requests have arrived; the working directory has no ESLint
\* configuration, so the analyzers are JSHint and the TypeScript compiler.
TwoRunsInit ==
    /\ workspace \in Workspaces
    /\ ~checkFileExists(EslintConfigFiles, workspace.files)
    /\ trail = <<>>
    /\ parsed = NoParse
    /\ manager = NoManager
    /\ pc = "start"
    /\ inv = NoInvocation
    /\ nextOid = 1
    /\ procs = <<>>
    /\ warnings = <<>>
    /\ prompt = <<>>
    /\ promptTimeout = GeminiDefaultTimeoutMs
    /\ caught = NoError
    /\ changedFiles = <<>>
    /\ fileIdx = 0
    /\ results = <<>>
    /\ linterReport = Report(<<>>)
    /\ ret = NoReturn
    /\ parked = Locals

TwoRunsNext ==
    \/ ListChanges
    \/ ProbeEslintConfig
    \/ ProbeJshint
    \/ JshintFile
    \/ JshintSettled
    \/ ProbeTsConfig
    \/ Tsc
    \/ FetchDiff
    \/ Switch

TwoRunsSpec == TwoRunsInit /\ [][TwoRunsNext]_vars

(***************************************************************************)
(* Properties of the process runners (RunnerSpec, FairRunnerSpec).         *)
(***************************************************************************)
Settlements == inv.resolves + inv.rejects

\* C1: resolve and reject are called at most once in total per invocation,
\* exactly once when the promise is settled, never both, and no later event
\* (data, error, close, timer) changes a settled promise.
C1_ExactlyOnceSettlement ==
    /\ [](/\ Settlements <= 1
          /\ (inv.promise.state = "pending") = (Settlements = 0)
          /\ (inv.promise.state = "resolved") = (inv.resolves = 1)
          /\ (inv.promise.state = "rejected") = (inv.rejects = 1))
    /\ [][inv.promise.state # "pending" => inv'.promise = inv.promise]_vars

\* C1 witness: the timer settled the invocation, and afterwards the child wrote
\* output, emitted 'error' and closed.
C1_LateEventsAfterTimeout ==
    /\ inv.settledBy = "timeout"
    /\ inv.child = "closed"
    /\ inv.errorEvents = 1
    /\ inv.outChunks # <<>>
    /\ Settlements = 1

\* C2: under FairRunnerSpec every invocation that is pending is eventually
\* resolved or rejected, whatever the child does or does not do.
C2_EventuallySettles ==
    (inv.promise.state = "pending") ~> (inv.promise.state # "pending")

\* C2 witness: the invocation was rejected while the child had emitted no event
\* at all and was still running.
C2_SettledWithSilentChild ==
    /\ inv.promise.state = "rejected"
    /\ inv.child = "alive"
    /\ inv.outChunks = <<>>
    /\ inv.errChunks = <<>>
    /\ inv.errorEvents = 0

\* text of error message `message` carries the exit status and the captured stderr
CarriesExit(message, code, stderr) ==
    /\ Includes(message, ToString(code))
    /\ Len(message) >= Len(stderr)
    /\ SubSeq(message, Len(message) - Len(stderr) + 1, Len(message)) = stderr

\* C3: in every runner, a close with a non-zero status that settles the
\* invocation rejects it with an error carrying the status and the stderr
\* captured so far; the invocation is not resolved.
C3_NonZeroExitRejects ==
    (inv.settledBy = "close" /\ inv.closeCode # 0)
        => /\ inv.promise.state = "rejected"
           /\ CarriesExit(inv.promise.error.message, inv.closeCode, Flatten(inv.errChunks))

\* C4: once the timer has fired, SIGTERM was sent to the child once and the
\* promise is rejected with an error whose message carries the configured
\* duration, in the same step and whether or not the child has closed.
C4_TimeoutKillsAndRejects ==
    inv.timer = "fired"
        => /\ inv.sigterms = 1
           /\ inv.settledBy = "timeout"
           /\ inv.promise.state = "rejected"
           /\ ~inv.promise.error.hasCode
           /\ Includes(inv.promise.error.message, ToString(inv.timeoutMs))

\* C4 witness: the timeout rejection is there while the child is still running.
C4_RejectedWhileChildRuns ==
    /\ inv.timer = "fired"
    /\ inv.promise.state = "rejected"
    /\ inv.child = "alive"
    /\ inv.timeoutMs = GeminiDefaultTimeoutMs

\* C5: when the launch fails (spawn throws, or the child's 'error' event
\* reports it), the promise is rejected with that very error object, it is
\* never resolved, and the timer never fires.
C5_LaunchFailureRejectsWithCause ==
    inv.launch \in {"throw", "failing"}
        => /\ inv.resolves = 0
           /\ inv.timer # "fired"
           /\ inv.sigterms = 0
           /\ (inv.launch = "throw" \/ inv.child # "failing")
                 => inv.promise = [state |-> "rejected", stdout |-> <<>>, stderr |-> <<>>,
                                   error |-> inv.launchErr]

\* C5 witness: the 'error' event of a failed launch was delivered and the
\* child's 'close' followed.
C5_LaunchFailedThenClosed ==
    /\ inv.launch = "failing"
    /\ inv.child = "closed"
    /\ inv.promise.state = "rejected"
    /\ inv.launchErr.code = "ENOENT"

\* C6: when spawnGemini's child closes with status 0 and that settles the
\* invocation, the promise is resolved with the stdout chunks concatenated in
\* arrival order; stderr never makes it fail, and a warning is logged exactly
\* when the captured stderr is more than whitespace.
C6_SuccessYieldsStdoutInOrder ==
    (inv.kind = "gemini" /\ inv.settledBy = "close" /\ inv.closeCode = 0)
        => /\ inv.promise.state = "resolved"
           /\ inv.rejects = 0
           /\ inv.promise.stdout = Flatten(inv.outChunks)
           /\ inv.promise.stderr = Flatten(inv.errChunks)
           /\ warnings = IF Trim(Flatten(inv.errChunks)) # <<>>
                         THEN << <<"Gemini CLI output on stderr">> >>
                         ELSE <<>>

\* C6 witness: status 0 after two different stdout chunks and a stderr chunk.
C6_TwoChunksAndStderr ==
    /\ inv.kind = "gemini"
    /\ inv.settledBy = "close"
    /\ inv.closeCode = 0
    /\ Len(inv.outChunks) = 2
    /\ inv.outChunks[1] # inv.outChunks[2]
    /\ inv.errChunks = << <<"Argument List Too Long">> >>
    /\ warnings # <<>>

(***************************************************************************)
(* Properties of the argument transport (TransportSpec).                   *)
(***************************************************************************)
\* the argument-too-long signature as the specification words it: the code
\* E2BIG, or the phrase in the message in any letter case
ArgTooLongSignature(e) ==
    \/ (e.hasCode /\ e.code = "E2BIG")
    \/ \E k \in 1..Len(e.message) : LowerAtom(e.message[k]) = "argument list too long"

FirstAttemptFailed == caught # NoError

\* C7: whenever the first attempt failed with an error that has the code E2BIG
\* or whose message holds the phrase, a second process was spawned.
C7_RetryOnEitherSignature ==
    (FirstAttemptFailed /\ ArgTooLongSignature(caught)) => Len(procs) = 2

\* C8: whenever the first attempt failed with an error that has neither
\* signature, no second process was spawned and the caller got the caught
\* error object itself.
C8_OtherFailurePropagates ==
    (FirstAttemptFailed /\ ~ArgTooLongSignature(caught))
        => /\ Len(procs) = 1
           /\ pc = "failed"
           /\ ret = [kind |-> "error", text |-> <<>>, error |-> caught]
           /\ caught = inv.promise.error
           /\ warnings = <<>>

\* C8 witness: the first attempt timed out and the run failed with one spawn.
C8_TimeoutNotRetried ==
    /\ pc = "failed"
    /\ inv.settledBy = "timeout"
    /\ caught = inv.promise.error
    /\ Len(procs) = 1

\* C9: the first attempt passes the prompt as the only argument and ends stdin
\* without data; the retry passes no argument and writes to stdin the prompt,
\* followed by one newline unless the prompt ends with one, then ends stdin;
\* both run under runGeminiPrompt's timeout.
C9_TransportShape ==
    /\ procs[1] = [file |-> "gemini", args |-> <<prompt>>, shell |-> FALSE,
                   timeoutMs |-> promptTimeout]
    /\ Len(procs) = 1
          => /\ inv.args = <<prompt>>
             /\ inv.stdinData = <<>>
             /\ inv.stdinEnded = (inv.launch # "throw")
             /\ inv.timeoutMs = promptTimeout
    /\ Len(procs) = 2
          => /\ procs[2] = [file |-> "gemini", args |-> <<>>, shell |-> FALSE,
                            timeoutMs |-> promptTimeout]
             /\ inv.args = <<>>
             /\ inv.timeoutMs = promptTimeout
             /\ inv.stdinEnded = (inv.launch # "throw")
             /\ inv.launch # "throw"
                   => /\ SubSeq(inv.stdinData, 1, Len(prompt)) = prompt
                      /\ inv.stdinData[Len(inv.stdinData)] = "\n"
                      /\ Len(inv.stdinData) =
                            IF prompt[Len(prompt)] = "\n" THEN Len(prompt) ELSE Len(prompt) + 1
    /\ Len(procs) <= 2

\* C9 witness: a retry over stdin of a prompt that already ends with a newline
\* has succeeded.
C9_RetriedPromptEndingInNewline ==
    /\ pc = "done"
    /\ Len(procs) = 2
    /\ prompt[Len(prompt)] = "\n"
    /\ inv.stdinData = prompt

(***************************************************************************)
(* Properties of the analyzer invocations (Spec).                          *)
(***************************************************************************)
\* the calls that run an analyzer on changed files
IsAnalyzerCall(call) ==
    \E k \in 1..Len(call.args) :
        Includes(call.args[k], "eslint") \/ Includes(call.args[k], "jshint ")

\* C10: every ESLint and JSHint invocation runs without a shell and has a
\* changed file as an argument-vector entry of its own.
C10_ChangedFilesNeverThroughShell ==
    \A n \in 1..Len(procs) :
        IsAnalyzerCall(procs[n])
            => /\ ~procs[n].shell
               /\ \E k \in 1..Len(procs[n].args), f \in 1..Len(changedFiles) :
                     procs[n].args[k] = changedFiles[f]

(***************************************************************************)
(* Properties of the analyzer selection (LinterSpec).                      *)
(***************************************************************************)
Rank(strategy) ==
    CASE strategy = "eslint" -> 1 [] strategy = "jshint" -> 2 [] strategy = "typescript" -> 3

\* runProjectLinter has returned to runHybridAnalysis
LinterReturned == trail # <<>> /\ pc \in {"diff", "failed"}

\* among the first n entries of trail: the strategy was found infeasible / one
\* of its runs threw / one of its runs ended with an error, a non-zero status
\* or the timeout
FoundInfeasible(strategy, n) ==
    \E i \in 1..n : trail[i].strategy = strategy /\ trail[i].step = "probe" /\ ~trail[i].ok
Threw(strategy, n) ==
    \E i \in 1..n : trail[i].strategy = strategy /\ trail[i].step = "run" /\ ~trail[i].ok
FailedInExecution(strategy, n) ==
    \E i \in 1..n : /\ trail[i].strategy = strategy
                     /\ trail[i].step = "run"
                     /\ (~trail[i].ok \/ trail[i].exit # 0)
HasRun(strategy) ==
    \E i \in 1..Len(trail) : trail[i].strategy = strategy /\ trail[i].step = "run"

\* the strategy is feasible in the working directory of the run
Feasible(strategy) ==
    CASE strategy = "eslint" ->
            \E k \in 1..Len(EslintConfigFiles) : EslintConfigFiles[k] \in workspace.files
      [] strategy = "jshint" -> workspace.jshint
      [] strategy = "typescript" ->
            /\ "tsconfig.json" \in workspace.files
            /\ \E k \in 1..Len(changedFiles) :
                  changedFiles[k][Len(changedFiles[k])] \in {".ts", ".tsx"}

\* C11: the probes and runs are made in the order ESLint, JSHint, TypeScript,
\* and a strategy is probed or run only after every strategy before it was
\* found infeasible or had a run that threw; so after a strategy that completed
\* no later one appears.
C11_StrictPriorityOrder ==
    \A j \in 1..Len(trail) :
        /\ \A i \in 1..(j - 1) : Rank(trail[i].strategy) <= Rank(trail[j].strategy)
        /\ \A s \in {"eslint", "jshint", "typescript"} :
              Rank(s) < Rank(trail[j].strategy)
                  => FoundInfeasible(s, j - 1) \/ Threw(s, j - 1)

\* C11 witness: ESLint threw, JSHint was not installed, and the TypeScript
\* check ran and returned.
C11_FellThroughToTypeScript ==
    /\ LinterReturned
    /\ Threw("eslint", Len(trail))
    /\ FoundInfeasible("jshint", Len(trail))
    /\ trail[Len(trail)].strategy = "typescript"
    /\ trail[Len(trail)].step = "run"
    /\ trail[Len(trail)].ok

EslintWarned ==
    \E k \in 1..Len(warnings) :
        Head(warnings[k]) = "ESLint execution failed, trying fallback linter:"

\* C12: after an ESLint run that failed (its step threw, or the process ended
\* with a non-zero status or was timed out) the warning is logged and the
\* selector is at the JSHint probe or beyond it, not back in runHybridAnalysis
\* with the ESLint step's result.
C12_EslintFailureFallsThrough ==
    \A i \in 1..Len(trail) :
        (trail[i].strategy = "eslint" /\ FailedInExecution("eslint", i))
            => /\ EslintWarned
               /\ (pc = "probeJshint" \/ i < Len(trail))

\* the findings of the JSHint runs recorded in trail, in order
RECURSIVE JshintProduced(_, _)
JshintProduced(n, files) ==
    IF n = 0 \/ files = <<>> THEN <<>>
    ELSE IF trail[n].strategy = "jshint" /\ trail[n].step = "run"
    THEN JshintProduced(n - 1, SubSeq(files, 1, Len(files) - 1))
            \o (IF trail[n].stderr # <<>>
                THEN parseJshintOutput(trail[n].stderr, files[Len(files)])
                ELSE <<>>)
    ELSE JshintProduced(n - 1, files)

IsEslintResult(item) == "messages" \in item.keys

\* C13: the returned report holds findings of one analyzer only, and when the
\* ESLint run failed it holds nothing of ESLint and, where JSHint is feasible,
\* JSHint was run and, unless it failed too, the report is exactly what its
\* runs produced.
C13_NoMerging ==
    LinterReturned =>
        /\ \A a, b \in 1..Len(linterReport.items) :
              linterReport.items[a].source = linterReport.items[b].source
        /\ FailedInExecution("eslint", Len(trail)) =>
              /\ \A a \in 1..Len(linterReport.items) : ~IsEslintResult(linterReport.items[a])
              /\ Feasible("jshint") =>
                     /\ HasRun("jshint")
                     /\ ~FailedInExecution("jshint", Len(trail)) =>
                            linterReport.items = JshintProduced(Len(trail), changedFiles)

\* C14: when runProjectLinter returns and every strategy is infeasible or
\* failed in execution, the report is the empty sequence, the warning that no
\* linter was found is logged, and runHybridAnalysis goes on.
C14_NoStrategyGivesEmptyReport ==
    (/\ LinterReturned
     /\ \A s \in {"eslint", "jshint", "typescript"} :
           ~Feasible(s) \/ FailedInExecution(s, Len(trail)))
        => /\ linterReport = Report(<<>>)
           /\ \E k \in 1..Len(warnings) : warnings[k] = NoLinterWarning
           /\ pc = "diff"

\* C15: a run with changed files fails only at or after the fetch of the diff.
C15_AnalyzerStageNeverFailsTheRun ==
    (pc = "failed" /\ changedFiles # <<>>)
        => \E k \in 1..Len(procs) : procs[k] = ExecCall(GitDiffCommand, 0)

\* C16: every element of the returned report has the properties of a Finding,
\* with a filePath and a message that are not empty.
C16_FindingsAreNormalized ==
    LinterReturned =>
        \A a \in 1..Len(linterReport.items) :
            /\ linterReport.items[a].keys = Finding(<<>>, 0, 0, <<>>, "", "").keys
            /\ linterReport.items[a].filePath # <<>>
            /\ linterReport.items[a].message # <<>>

\* C19: when the TypeScript check was run, the returned report is the parse of
\* what that run of the compiler wrote, to whichever stream and with whichever
\* exit status.
C19_TypeScriptFindingsAreTheDiagnostics ==
    (LinterReturned /\ HasRun("typescript"))
        => LET run == trail[Len(trail)]
           IN  linterReport.items =
                   parseTypeScriptErrors(run.stdout) \o parseTypeScriptErrors(run.stderr)

TscCalled ==
    \/ pc = "tsc"
    \/ HasRun("typescript")
    \/ \E k \in 1..Len(procs) : procs[k] = ExecCall(TscCommand, TscTimeoutMs)

\* C20: the compiler is called only in a working directory that has
\* tsconfig.json and for a change set with a file ending in .ts or .tsx.
C20_TypeScriptOnlyWithConfigAndTsFile ==
    TscCalled
        => /\ "tsconfig.json" \in workspace.files
           /\ \E k \in 1..Len(changedFiles) :
                 changedFiles[k][Len(changedFiles[k])] \in {".ts", ".tsx"}

\* C20 witness: tsconfig.json exists, the change set has a .js and a .vue file
\* only, the TypeScript probe was made and runProjectLinter returned without
\* calling the compiler.
C20_ConfigButNoTsFile ==
    /\ LinterReturned
    /\ "tsconfig.json" \in workspace.files
    /\ changedFiles = << <<"a", ".js">>, <<"b", ".vue">> >>
    /\ trail[Len(trail)].strategy = "typescript"
    /\ trail[Len(trail)].step = "probe"
    /\ ~TscCalled

(***************************************************************************)
(* Properties of the parsers (ParserSpec).                                 *)
(***************************************************************************)
\* the lines that are diagnostics
IssueLines(lines) == SelectSeq(lines, LAMBDA l : l.issue)

\* the Finding a diagnostic line stands for, with the file it names
FindingOfLine(l, source) ==
    Finding(l.file, ParseInt(l.line), ParseInt(l.column), l.message, l.severity, source)

C18_TypeScriptFindingsOfEveryDiagnostic ==
    parsed.fn = "typescript"
        => LET issues == IssueLines(parsed.lines)
           IN  parsed.issues = [k \in 1..Len(issues) |-> FindingOfLine(issues[k], "typescript")]

(***************************************************************************)
(* Properties of the JSHint loop (LinterSpec).                             *)
(***************************************************************************)
\* the JSHint processes started so far, in the order of their start, and the
\* number of them that have ended
JshintProcesses ==
    SelectSeq(procs, LAMBDA call : \E k \in 1..Len(call.args) : Includes(call.args[k], "jshint "))
JshintEnded ==
    Cardinality({ i \in 1..Len(trail) : trail[i].strategy = "jshint" /\ trail[i].step = "run" })

\* C21: JSHint runs one process for each changed file, in the order of the
\* change set and never two at a time, each with a timeout of 10 seconds of
\* its own.
C21_JshintOneFileAtATime ==
    /\ Len(JshintProcesses) - JshintEnded \in {0, 1}
    /\ Len(JshintProcesses) <= Len(changedFiles)
    /\ \A k \in 1..Len(JshintProcesses) :
          /\ ~(\E j \in 1..Len(JshintProcesses) : j # k /\ JshintProcesses[j] = JshintProcesses[k])
          /\ JshintProcesses[k].args[Len(JshintProcesses[k].args)] = <<"jshint ">> \o changedFiles[k]
          /\ JshintProcesses[k].timeoutMs = 10000
    /\ (HasRun("jshint") /\ ~Threw("jshint", Len(trail)) /\ LinterReturned)
          => Len(JshintProcesses) = Len(changedFiles)

\* the process of the second file runs after that of the first has ended
C21_SecondFileRunning ==
    /\ pc = "jshintRun"
    /\ Len(JshintProcesses) = 2
    /\ JshintEnded = 1

(***************************************************************************)
(* Properties of the change collector (ParserSpec).                        *)
(***************************************************************************)
\* C22: the change set is, in the order of the listing, exactly its non-blank
\* lines whose path ends in .js, .ts, .tsx or .vue.
C22_ChangeSetIsTheReviewedLines ==
    parsed.fn = "changes"
        => LET listed == IssueLines(parsed.lines)
           IN  parsed.issues = [k \in 1..Len(listed) |-> listed[k].text]

\* a listing of a .jsx file and a .vue file: only the second is in the change set
C22_JsxLeftOut ==
    /\ parsed.fn = "changes"
    /\ parsed.lines = << OtherLine(<<"e", ".jsx">>), ChangedLine(<<"my component", ".vue">>) >>
    /\ parsed.issues = << <<"my component", ".vue">> >>

(***************************************************************************)
(* Properties of a run of the tool (Spec, EditedSpec, TransportSpec).      *)
(***************************************************************************)
Ended == pc \in {"noChanges", "done", "failed"}

\* C23: a run whose change listing fails ends in NoChanges with the canonical
\* empty result: a run that ends after the listing command alone has
\* returned that result.
C23_ListingFailureEndsInNoChanges ==
    (Ended /\ Len(procs) = 1)
        => /\ pc = "noChanges"
           /\ ret = Returned(CanonicalEmptyResult)

\* C24: once the listing has yielded an empty change set, the run has
\* returned the canonical empty result and has spawned no process but the
\* listing; and a run is in NoChanges only in that case.
C24_EmptyChangeSetShortCircuits ==
    /\ (pc \notin {"start", "failed"} /\ changedFiles = <<>>)
          => /\ pc = "noChanges"
             /\ ret.kind = "text"
             /\ ret.text = <<"{ \"summary\": \"No relevant files changed.\", \"assessment\": \"\", \"findings\": [] }">>
             /\ procs = << ExecCall(GitListCommand, 0) >>
             /\ inv = NoInvocation
    /\ pc = "noChanges" => changedFiles = <<>>

\* only README.md was changed, in a working directory with an ESLint
\* configuration and jshint installed
C24_OnlyReadmeChanged ==
    /\ pc = "noChanges"
    /\ workspace.tree = <<"README", ".md", "\n">>
    /\ ".eslintrc.json" \in workspace.files
    /\ workspace.jshint

\* the calls of the stages, as they appear in the process log
IsListing(call) == call = ExecCall(GitListCommand, 0)
IsDiffRetrieval(call) == call = ExecCall(GitDiffCommand, 0)
IsReviewer(call) == call.file = "gemini"

StagesInOrder ==
    LET at == 1..Len(procs)
        listings == { n \in at : IsListing(procs[n]) }
        diffs == { n \in at : IsDiffRetrieval(procs[n]) }
        reviewers == { n \in at : IsReviewer(procs[n]) }
        analyzers == at \ (listings \cup diffs \cup reviewers)
    IN  /\ listings = at \cap {1}
        /\ Cardinality(diffs) <= 1
        /\ \A a \in analyzers, d \in diffs : a < d
        /\ \A d \in diffs, r \in reviewers : d < r
        /\ reviewers # {} => /\ diffs # {}
                             /\ \E k \in 1..Len(prompt) : prompt[k] = "diff --git a/"
        /\ pc \in AnalyzerStage \cup {"diff"} => diffs = {}

OneOutcome ==
    /\ Ended <=> ret # NoReturn
    /\ pc = "noChanges" => ret.kind = "text" /\ \A n \in 1..Len(procs) : IsListing(procs[n])
    /\ pc = "done" => ret.kind = "text" /\ \E n \in 1..Len(procs) : IsReviewer(procs[n])
    /\ pc = "failed" => ret.kind = "error"

\* C25: the stages run in the order listing, analyzer, diff retrieval,
\* payload, reviewer; no reviewer is spawned unless the diff was retrieved
\* before it; the run ends in one of NoChanges, Done and Failed, and stays
\* there with the outcome it has.
C25_StagesInOrderAndOneOutcome ==
    [][/\ StagesInOrder'
       /\ OneOutcome'
       /\ Ended => (pc' = pc /\ ret' = ret /\ procs' = procs)]_vars

\* a run through all the stages: the TypeScript analyzer ran, the reviewer
\* answered
C25_RunThroughAllStages ==
    /\ pc = "done"
    /\ HasRun("typescript")
    /\ \E n \in 1..Len(procs) : IsReviewer(procs[n])

\* the paths the patches of a serialized diff are for: what stands between
\* `diff --git a/` and the end of that line
PatchedFiles(text) ==
    { SubSeq(text, k + 1, e - 1) :
        <<k, e>> \in { <<k, e>> \in (1..Len(text)) \X (1..Len(text)) :
                          /\ text[k] = "diff --git a/"
                          /\ k < e
                          /\ text[e] = "\\n"
                          /\ \A m \in (k + 1)..(e - 1) : text[m] # "\\n" } }

\* C26: every file with a recognized extension that the diff of the payload
\* has a patch for is in the change set that was analyzed, also when the
\* working directory was edited during the analyzer stage.
C26_DiffOfTheSameChangeWindow ==
    pc = "reviewer1"
        => \A path \in PatchedFiles(prompt) :
              (path # <<>> /\ path[Len(path)] \in {".js", ".ts", ".tsx", ".vue"})
                  => \E k \in 1..Len(changedFiles) : changedFiles[k] = path

\* C27: the text a run in Done returns is the standard output of the reviewer
\* process, chunk after chunk as it was written and nothing else, also when
\* that is empty or no JSON document.
C27_DoneReturnsStdoutUntouched ==
    pc = "done" => /\ ret.kind = "text"
                   /\ ret.text = Flatten(inv.outChunks)
                   /\ ret.error = NoError

\* the reviewer wrote the two halves of its answer in the wrong order
C27_ReturnedTextIsNoJson ==
    /\ pc = "done"
    /\ inv.outChunks = << <<"\"ok\"}">>, <<"{\"summary\":">> >>
    /\ ret.text = <<"\"ok\"}", "{\"summary\":">>

\* C28: a run in which the listing, the diff retrieval or the reviewer failed
\* ends with an error thrown and returns no text; a text is returned only by a
\* run whose listing succeeded and, past NoChanges, whose diff was retrieved
\* and whose last reviewer invocation resolved.
C28_FailuresAreThrown ==
    /\ pc = "failed" => /\ ret.kind = "error"
                        /\ ret.text = <<>>
                        /\ ret.error # NoError
    /\ (Ended /\ inv.promise.state = "rejected")
          => ret.kind = "error" /\ ret.error = inv.promise.error
    /\ ret.kind = "text"
          => \/ pc = "noChanges"
             \/ /\ pc = "done"
                /\ inv.promise.state = "resolved"
                /\ \E n \in 1..Len(procs) : IsDiffRetrieval(procs[n])

\* the diff retrieval failed after JSHint had produced findings
C28_DiffFailedAfterFindings ==
    /\ pc = "failed"
    /\ ret.error.message = <<"Command failed: ", "git diff HEAD">>
    /\ linterReport.items # <<>>
    /\ IsDiffRetrieval(procs[Len(procs)])

\* C29: the error a failed run throws has a message that is longer than the
\* message of the error that made it fail and contains that message whole.
C29_FailureIsWrapped ==
    pc = "failed"
        => LET wrapped == ret.error.message
               original == inv.promise.error.message
           IN  /\ Len(wrapped) > Len(original)
               /\ \E k \in 1..(Len(wrapped) - Len(original) + 1) :
                     SubSeq(wrapped, k, k + Len(original) - 1) = original

\* the texts the reviewer processes of the run were given: the argument of
\* those spawned with one, and what was written to the standard input of the
\* one spawned without
ReviewerInputs ==
    { procs[n].args[1] : n \in { m \in 1..Len(procs) : IsReviewer(procs[m]) /\ procs[m].args # <<>> } }
    \cup (IF inv.kind = "gemini" /\ inv.args = <<>> /\ inv.launch # "throw"
          THEN {inv.stdinData} ELSE {})

\* the reading of a JSON string: the quotes taken off, the escapes undone
JsonUnescapeAtom(a) ==
    CASE a = "\\n" -> "\n"
      [] a = "\\\"" -> "\""
      [] a = "\\\\" -> "\\"
      [] OTHER -> a
JsonStringValue(s) == [k \in 1..(Len(s) - 2) |-> JsonUnescapeAtom(s[k + 1])]

\* the input has, between the line of CONTEXT START and the line of CONTEXT
\* END, one payload with the given diff and an empty list of findings
CarriesPayload(input, diff) ==
    \E e \in 4..Len(input) :
        /\ input[1] = "You are an expert-level AI code reviewer ... --- CONTEXT START ---"
        /\ input[2] = "\n"
        /\ input[e - 1] = "\n"
        /\ input[e] = "--- CONTEXT END --- ... **JSON SCHEMA:** { ... }"
        /\ \A k \in 1..Len(input) : k \notin {1, e} => input[k] \notin {input[1], input[e]}
        /\ LET payload == SubSeq(input, 3, e - 2)
               n == Len(payload)
           IN  /\ n >= 6
               /\ payload[1] = "{ \"diff\": "
               /\ payload[2] = "\"" /\ payload[n - 3] = "\""
               /\ JsonStringValue(SubSeq(payload, 2, n - 3)) = diff
               /\ SubSeq(payload, n - 2, n) = <<", \"linterReport\": ", "<<>>", " }">>

NoAnalyzerFeasible == \A s \in {"eslint", "jshint", "typescript"} : ~Feasible(s)

\* C30: in a run with a non-empty change set and no feasible analyzer, every
\* reviewer process is given, as its argument or on its standard input, the
\* prompt with one payload whose findings are empty and whose diff is the
\* text the diff retrieval returned.
C30_PayloadWithoutAnalyzer ==
    (changedFiles # <<>> /\ NoAnalyzerFeasible)
        => /\ pc \in {"reviewer1", "reviewer2", "done"} => ReviewerInputs # {}
           /\ \A input \in ReviewerInputs : CarriesPayload(input, DiffOf(workspace.tree))

\* without analyzer, the prompt did not fit the argument list and went to the
\* standard input of a second reviewer process
C30_PayloadOverStdin ==
    /\ changedFiles # <<>>
    /\ NoAnalyzerFeasible
    /\ pc = "done"
    /\ Cardinality(ReviewerInputs) = 2

(***************************************************************************)
(* More properties of the process runners (RunnerSpec).                    *)
(***************************************************************************)
\* C34: SIGTERM is sent at most once and only by the timer firing on an
\* unsettled invocation; an invocation settled by 'close' or 'error' has
\* its timer cancelled and its child was never signalled.
C34_SigtermOnlyOnTimeout ==
    /\ inv.sigterms <= 1
    /\ inv.sigterms = 1 <=> inv.settledBy = "timeout"
    /\ inv.sigterms = 1 => inv.timer = "fired"
    /\ inv.settledBy \in {"close", "error"}
          => /\ inv.timer = "cleared"
             /\ inv.sigterms = 0
    /\ inv.settledBy = "throw" => inv.timer = "unset" /\ inv.sigterms = 0

\* an ESLint child closed before its timer ran out: the timer is cancelled
C34_EslintClosedInTime ==
    /\ inv.kind = "eslint"
    /\ inv.settledBy = "close"
    /\ inv.child = "closed"
    /\ inv.timer = "cleared"
    /\ inv.sigterms = 0

(***************************************************************************)
(* More properties of a run of the tool (Spec).                            *)
(***************************************************************************)
\* C31: every external process a run starts (git, the probes, the analyzers,
\* the reviewer) is started with a timeout.
C31_EveryProcessHasATimeout ==
    \A n \in 1..Len(procs) : procs[n].timeoutMs > 0

(***************************************************************************)
(* More properties of the argument transport (TransportSpec).              *)
(***************************************************************************)
ReviewerSpawns == { n \in 1..Len(procs) : procs[n].file = "gemini" }

\* C35: a run spawns at most two reviewer processes, the second one only for
\* the retry over stdin; when the retry is rejected the run has failed with
\* the retry's error, also when that error has the argument-length signature.
C35_AtMostOneRetry ==
    /\ Cardinality(ReviewerSpawns) <= 2
    /\ Cardinality(ReviewerSpawns) = 2
          => /\ procs[Len(procs)].args = <<>>
             /\ FirstAttemptFailed
    /\ (Cardinality(ReviewerSpawns) = 2 /\ inv.promise.state = "rejected" /\ pc # "reviewer2")
          => /\ pc = "failed"
             /\ ret = [kind |-> "error", text |-> <<>>, error |-> inv.promise.error]

\* the retry over stdin failed with E2BIG again and was not repeated
C35_RetryFailedWithE2BIG ==
    /\ pc = "failed"
    /\ Cardinality(ReviewerSpawns) = 2
    /\ ret.error.hasCode
    /\ ret.error.code = "E2BIG"

(***************************************************************************)
(* More properties of the analysis up to the payload (EditedSpec).         *)
(***************************************************************************)
DiffRetrieved == \E n \in 1..Len(procs) : IsDiffRetrieval(procs[n])
ReviewerInvoked == \E n \in 1..Len(procs) : IsReviewer(procs[n])

\* C36: the handler answers with the canonical empty result exactly when the
\* listing yielded an empty change set, and invokes the reviewer exactly when
\* the change set is not empty and the diff was retrieved, whatever the diff
\* and the linter report are.
C36_SentinelOnlyForEmptyChangeSet ==
    /\ pc = "noChanges" => changedFiles = <<>> /\ ~DiffRetrieved
    /\ (changedFiles = <<>> /\ pc \notin {"start", "failed"}) => pc = "noChanges"
    /\ ReviewerInvoked => changedFiles # <<>>
    /\ (changedFiles # <<>> /\ DiffRetrieved /\ pc # "failed")
          => /\ ReviewerInvoked
             /\ prompt # <<>>
             /\ ~(\E k \in 1..Len(prompt) : prompt[k] = "{}")

\* every change was reverted during the analyzer stage and no analyzer found
\* anything: the payload with an empty diff and no findings goes to the reviewer
C36_EmptyDiffAndNoFindings ==
    /\ pc = "reviewer1"
    /\ changedFiles # <<>>
    /\ workspace.tree = <<>>
    /\ linterReport.items = <<>>
    /\ ReviewerInvoked

(***************************************************************************)
(* More properties of the analyzer selection (LinterSpec).                 *)
(***************************************************************************)
\* C37: when the JSHint process of any file has failed, the returned report
\* holds no JSHint finding, and the TypeScript strategy was probed after the
\* failure.
C37_JshintAllOrNothing ==
    (LinterReturned /\ Threw("jshint", Len(trail)))
        => /\ ~linterReport.isNull
              => \A k \in 1..Len(linterReport.items) : linterReport.items[k].source # "jshint"
           /\ \E i, j \in 1..Len(trail) :
                 /\ i < j
                 /\ trail[i].strategy = "jshint" /\ trail[i].step = "run" /\ ~trail[i].ok
                 /\ trail[j].strategy = "typescript" /\ trail[j].step = "probe"

\* JSHint found something in the first file and failed on the second; the
\* report that was returned is empty
C37_FindingsOfFirstFileDropped ==
    /\ LinterReturned
    /\ Len(changedFiles) = 2
    /\ results # <<>>
    /\ Threw("jshint", Len(trail))
    /\ linterReport = Report(<<>>)

\* the strategy ran and none of its processes failed
ExecutedSuccessfully(strategy) == HasRun(strategy) /\ ~FailedInExecution(strategy, Len(trail))

NoLinterWarned ==
    \E k \in 1..Len(warnings) :
        warnings[k] = <<"No suitable linter found in project, proceeding without static analysis">>

\* C38: the warning that no suitable linter was found is logged only in runs
\* in which no analyzer strategy executed successfully.
C38_WarningOnlyWithoutAnalysis ==
    NoLinterWarned
        => \A s \in {"eslint", "jshint", "typescript"} : ~ExecutedSuccessfully(s)

(***************************************************************************)
(* Properties of the inspector manager (InspectorSpec).                    *)
(***************************************************************************)
\* C33: the inspector is started only after ports 6277 and 6274 were both
\* found free or, with --auto-cleanup, after every process found on them
\* has been sent a termination signal; when a port is in use and
\* --auto-cleanup is absent the manager exits with status 1 and starts
\* nothing; with --cleanup it cleans up and returns and starts nothing.
C33_InspectorStartedOnlyOnClearedPorts ==
    /\ manager.inspector # "none" =>
          \/ manager.portsAvailable = "yes"
          \/ /\ "--auto-cleanup" \in manager.args
             /\ manager.found \subseteq manager.signalled
    /\ (manager.portsAvailable = "no" /\ "--auto-cleanup" \notin manager.args) =>
          /\ manager.pc = "exited"
          /\ manager.status = 1
          /\ manager.inspector = "none"
    /\ "--cleanup" \in manager.args =>
          /\ manager.inspector = "none"
          /\ manager.pc \in {"main", "cleanup", "wait", "returned"}

(***************************************************************************)
(* Properties of two concurrent invocations (TwoRunsSpec).                 *)
(***************************************************************************)
RECURSIVE JshintFindings(_, _)
\* the findings of a JSHint loop over `files` whose processes answered `runs`
JshintFindings(runs, files) ==
    IF runs = <<>> \/ files = <<>>
    THEN <<>>
    ELSE (IF Head(runs).stderr # <<>>
            THEN parseJshintOutput(Head(runs).stderr, Head(files))
            ELSE <<>>)
         \o JshintFindings(Tail(runs), Tail(files))

\* What runProjectLinter returns to an invocation that runs alone, from the
\* answers the invocation got (its trail) and its changed files.
AloneFindings(t, files) ==
    IF t = <<>>
    THEN <<>>
    ELSE LET last == t[Len(t)]
         IN  IF last.step = "run" /\ last.strategy = "jshint" /\ last.ok
               THEN JshintFindings(
                        SelectSeq(t, LAMBDA e : e.step = "run" /\ e.strategy = "jshint"),
                        files)
               ELSE IF /\ last.step = "run"
                       /\ last.strategy = "typescript"
                       /\ last.ok
                       /\ last.stderr # <<>>
                      THEN parseTypeScriptErrors(last.stderr)
                      ELSE <<>>

\* the invocation with local variables r has what it would have alone
RunIsolated(r) ==
    /\ r.trail # <<>> => r.changedFiles = ChangedFilesOf(workspace.tree)
    /\ (\E n \in 1..Len(r.trail) : r.trail[n].strategy = "jshint" /\ r.trail[n].step = "probe")
          <=> (\E n \in 1..Len(r.procs) : r.procs[n] = ExecCall(WhichCommand("jshint"), 0))
    /\ r.pc \in {"diff", "reviewer1", "noChanges", "failed"} =>
          r.linterReport = Report(AloneFindings(r.trail, r.changedFiles))
    /\ r.pc = "reviewer1" =>
          /\ r.prompt = PromptOf(AnalysisData(DiffOf(workspace.tree), r.linterReport))
          /\ \E launch \in Launches, oid \in 1..nextOid :
                r.inv = FirstInvocation(r.prompt, r.promptTimeout, launch, oid)

=============================================================================
